---- MODULE Spec2Model ----
(***************************************************************************)
(* State-machine model of the news pipeline: the persisted store (tweets,  *)
(* tweet_quality, broadcasts, audio), the scraper ingestion loop, the      *)
(* pipeline orchestrator runPipeline and the audio queue processor         *)
(* processAudioQueue.  Every store or network call is one step, so that    *)
(* concurrent invocations interleave at the awaits of the source.          *)
(***************************************************************************)
EXTENDS Integers, Sequences, FiniteSets, TLC

\* ---------------------------------------------------------------- bounds
\* the clock runs over 0..MaxTime; one unit of time is half an hour
MaxTime == 3
\* most broadcasts waiting when two audio queue processors start
MaxRaced == 2
\* most broadcasts, in any order, waiting when one processor starts
MaxBroadcasts == 3
\* most broadcasts, by age, waiting when one processor starts
MaxQueued == 11
\* the scraper serves the tweets 1..MaxScraperId of the catalog
MaxScraperId == 2
\* most failures of the store and of the outside services in one behaviour
MaxFaults == 1
\* the options of retry: maxRetries is in 0..MaxRetries
MaxRetries == 2
\* the options of retry: initialDelayMs and maxDelayMs are in 1..MaxDelayMs
MaxDelayMs == 2

\* spaces before and after a content
MaxPad == 1

\* words of a content handed to categorizeTweet
MaxWords == 2

\* tweets handed to clusterTweets
MaxItems == 4

\* clusters handed to generateBroadcastScript
MaxClusters == 6

\* ------------------------------------------------------- program constants
\* 60 * 60 * 1000 ms, in units of half an hour
Hour == 2
\* .limit(10) of the unpublished-broadcast query
QueueLimit == 10

\* limit: number = 100, the most tweets in a page; scaled down
PageLimit == 2
\* clusters.slice(0, 5)
TopClusters == 5
\* tweets.length < 3
MinClusterTweets == 3

Times == 0..MaxTime
QProcs == {"q1", "q2"}
Pipelines == {"p1", "p2"}
Ingesters == {"i1", "i2"}

VARIABLES
  now,            \* the wall clock (Date.now())
  tweets,         \* table tweets, in insertion order
  tweet_quality,  \* table tweet_quality, by tweet_id
  broadcasts,     \* table broadcasts, in insertion order (id = position)
  audio,          \* table audio, in insertion order
  ing,            \* the ingestTweetsFromScraper invocations
  pl,             \* the runPipeline invocations
  aq,             \* the processAudioQueue invocations
  faults,         \* failures of the store and of the services so far
  rt,             \* the call of retry in progress
  ev              \* the call of scoreTweet or categorizeTweet in progress

vars == <<now, tweets, tweet_quality, broadcasts, audio, ing, pl, aq, faults, rt, ev>>

\* no call of retry is in progress
RtIdle == [pc |-> "idle"]

\* no call of scoreTweet or categorizeTweet is in progress
EvIdle == [pc |-> "idle"]

\* a call fails: an error of the store, the network or a service
Fault == faults < MaxFaults /\ faults' = faults + 1

\* ------------------------------------------------------------- utilities
Range(s) == {s[i] : i \in 1..Len(s)}

Min(a, b) == IF a <= b THEN a ELSE b

\* ---------------------------------------------------------- categorizeTweet
\* the keys of the keyword table, in its order
Categories == <<"Politics", "Security", "Health", "Economy",
                "Education", "Energy", "Technology", "Social">>

NoHits == [c \in 1..Len(Categories) |-> 0]

\* hits on the keywords of one category only
HitsOn(c, n) == [NoHits EXCEPT ![c] = n]

\* (by count, descending, equal counts in the reverse of the table's order)
SortedByCountTiesReversed(hits, S) ==
  [k \in 1..Cardinality(S) |->
     CHOOSE i \in S :
       Cardinality({j \in S : \/ hits[j] > hits[i]
                               \/ (hits[j] = hits[i] /\ j > i)}) = k - 1]

\* Object.entries(matches).sort((a, b) => b[1] - a[1]): by count, descending;
\* the sort is stable, so equal counts keep the order of the keyword table
SortedByCount(hits, S) ==
  [k \in 1..Cardinality(S) |->
     CHOOSE i \in S :
       Cardinality({j \in S : \/ hits[j] > hits[i]
                               \/ (hits[j] = hits[i] /\ j < i)}) = k - 1]

\* (the secondaries without .filter(([_, count]) => count > 0))
categorizeTweetUnfiltered(hits) ==
  LET sorted == SortedByCount(hits, 1..Len(Categories))
      next   == SubSeq(sorted, 2, 3)
  IN [primary     |-> IF Len(sorted) > 0 THEN Categories[sorted[1]] ELSE "Social",
      secondaries |-> [k \in 1..Len(next) |-> Categories[next[k]]]]

\* a content is modelled by its keyword hits per category
categorizeTweet(hits) ==
  LET sorted == SortedByCount(hits, 1..Len(Categories))
      next   == SubSeq(sorted, 2, 3)
  IN [primary     |-> IF Len(sorted) > 0 THEN Categories[sorted[1]] ELSE "Social",
      secondaries |-> [k \in 1..Len(SelectSeq(next, LAMBDA c : hits[c] > 0)) |->
                         Categories[SelectSeq(next, LAMBDA c : hits[c] > 0)[k]]]]

\* ---------------------------------------------------------------- scoreTweet
\* INSERT INTO categories ...: confidence_threshold, in tenths
CategoryThreshold(name) ==
  CASE name = "Security"   -> 7
    [] name = "Technology" -> 5
    [] name = "Social"     -> 5
    [] OTHER               -> 6

\* category?.confidence_threshold || 0.6, in tenths
DefaultThreshold == 6

\* (Math.max(0, score) alone)
ClampBelowOnly(x) == IF x < 0 THEN 0 ELSE x

\* Math.max(0, Math.min(1, score)), in tenths
Clamp(x) == IF x < 0 THEN 0 ELSE IF x > 10 THEN 10 ELSE x

\* (the engagement signal without the check of author_verified)
EngagementSignalOfCountAlone(t) ==
  IF t.retweet_count = 0 THEN -2
  ELSE IF t.retweet_count > 100 THEN 2 ELSE 0

\* if (retweet_count === 0 && !author_verified) score -= 0.2;
\* else if (retweet_count > 100) score += 0.2;
EngagementSignal(t) ==
  IF t.retweet_count = 0 /\ ~t.author_verified THEN -2
  ELSE IF t.retweet_count > 100 THEN 2 ELSE 0

\* categoryThresholdOverride when the caller passes none
Undefined == <<>>

\* scores are in tenths; categoryThresholdOverride is Undefined or <<value>>;
\* lookupOk is whether the categories row was read
scoreTweet(t, categoryThresholdOverride, lookupOk) ==
  IF t.cleanLen < 15
  THEN [is_valid |-> FALSE, confidence_score |-> 0, primary_category |-> "Unknown",
        secondary_categories |-> <<>>, rejection_reason |-> <<"Too short">>]
  ELSE
    LET reasons == (IF t.emojiCount > 5 THEN <<"Too many emojis">> ELSE <<>>)
                   \o (IF t.hashtagCount > 5 THEN <<"Too many hashtags">> ELSE <<>>)
        score == 10
                 - (IF t.emojiCount > 5 THEN 3 ELSE 0)
                 - (IF t.hashtagCount > 5 THEN 2 ELSE 0)
                 + EngagementSignal(t)
                 + (IF t.author_verified THEN 3 ELSE 0)
        cat == categorizeTweet(t.hits)
        threshold == IF categoryThresholdOverride # Undefined
                     THEN categoryThresholdOverride[1]
                     ELSE IF lookupOk THEN CategoryThreshold(cat.primary)
                     ELSE DefaultThreshold
    IN [is_valid |-> /\ score >= threshold
                     /\ t.emojiCount <= 5
                     /\ t.hashtagCount <= 5
                     /\ Len(reasons) = 0,
        confidence_score |-> Clamp(score),
        primary_category |-> cat.primary,
        secondary_categories |-> cat.secondaries,
        rejection_reason |-> reasons]

\* ------------------------------------------------- tweets the scraper serves
ScraperTweet(id, author, verified, retweets, len, emojis, hashtags, hits) ==
  [tweet_id |-> id, author |-> author, author_verified |-> verified,
   retweet_count |-> retweets, cleanLen |-> len, emojiCount |-> emojis,
   hashtagCount |-> hashtags, hits |-> hits]

Catalog ==
  <<ScraperTweet(1, "a", TRUE, 150, 40, 0, 2, HitsOn(4, 1)),
    ScraperTweet(2, "b", FALSE, 5, 30, 0, 0, HitsOn(1, 1)),
    ScraperTweet(3, "a", FALSE, 0, 25, 1, 0, HitsOn(4, 2)),
    ScraperTweet(4, "c", FALSE, 0, 9, 0, 0, NoHits)>>

\* ------------------------------------------------------------ the content
\* A content is the sequence of the characters of tweet.content.  Emoji stands
\* for one character of the range \u{1F300}-\u{1F9FF}, which is two UTF-16
\* code units of the string
Emoji == "EMOJI"

\* String.length, in UTF-16 code units
Length(content) ==
  Len(content) + Cardinality({i \in 1..Len(content) : content[i] = Emoji})

\* n times the character c
Repeat(c, n) == [i \in 1..n |-> c]

UpperCaseLetters ==
  <<"A", "B", "C", "D", "E", "F", "G", "H", "I", "J", "K", "L", "M",
    "N", "O", "P", "Q", "R", "S", "T", "U", "V", "W", "X", "Y", "Z">>

LowerCaseLetters ==
  <<"a", "b", "c", "d", "e", "f", "g", "h", "i", "j", "k", "l", "m",
    "n", "o", "p", "q", "r", "s", "t", "u", "v", "w", "x", "y", "z">>

\* content.toLowerCase()
toLowerCase(content) ==
  [i \in 1..Len(content) |->
     IF \E k \in 1..26 : UpperCaseLetters[k] = content[i]
     THEN LowerCaseLetters[CHOOSE k \in 1..26 : UpperCaseLetters[k] = content[i]]
     ELSE content[i]]

\* content.includes(w)
includes(content, w) ==
  \E i \in 0..(Len(content) - Len(w)) : SubSeq(content, i + 1, i + Len(w)) = w

\* content.replace(/[#@]/g, "")
replaceMarks(content) == SelectSeq(content, LAMBDA c : c \notin {"#", "@"})

\* the white space of the texts: the space and the line break
WhiteSpace == {" ", "\n"}

\* content.trim()
trim(content) ==
  LET inked == {i \in 1..Len(content) : content[i] \notin WhiteSpace}
  IN IF inked = {} THEN <<>>
     ELSE SubSeq(content, CHOOSE i \in inked : \A j \in inked : i <= j,
                          CHOOSE i \in inked : \A j \in inked : i >= j)

\* (content.match(re) || []).length for a class re of single characters
CountOf(content, c) == Cardinality({i \in 1..Len(content) : content[i] = c})

\* the keyword table of categorizeTweet, in the order of Categories
Keywords ==
  <<<<<<"e", "l", "e", "c", "t", "i", "o", "n">>,
      <<"g", "o", "v", "e", "r", "n", "m", "e", "n", "t">>,
      <<"p", "r", "e", "s", "i", "d", "e", "n", "t">>,
      <<"p", "a", "r", "l", "i", "a", "m", "e", "n", "t">>,
      <<"m", "i", "n", "i", "s", "t", "e", "r">>>>,
    <<<<"s", "e", "c", "u", "r", "i", "t", "y">>,
      <<"a", "t", "t", "a", "c", "k">>,
      <<"m", "i", "l", "i", "t", "a", "r", "y">>,
      <<"t", "e", "r", "r", "o", "r", "i", "s", "m">>,
      <<"d", "e", "f", "e", "n", "s", "e">>>>,
    <<<<"h", "e", "a", "l", "t", "h">>,
      <<"d", "i", "s", "e", "a", "s", "e">>,
      <<"h", "o", "s", "p", "i", "t", "a", "l">>,
      <<"v", "a", "c", "c", "i", "n", "e">>,
      <<"c", "o", "v", "i", "d">>,
      <<"d", "o", "c", "t", "o", "r">>>>,
    <<<<"e", "c", "o", "n", "o", "m", "y">>,
      <<"b", "u", "s", "i", "n", "e", "s", "s">>,
      <<"m", "a", "r", "k", "e", "t">>,
      <<"t", "r", "a", "d", "e">>,
      <<"n", "a", "i", "r", "a">>,
      <<"g", "d", "p">>>>,
    <<<<"s", "c", "h", "o", "o", "l">>,
      <<"e", "d", "u", "c", "a", "t", "i", "o", "n">>,
      <<"u", "n", "i", "v", "e", "r", "s", "i", "t", "y">>,
      <<"s", "t", "u", "d", "e", "n", "t">>,
      <<"l", "e", "a", "r", "n", "i", "n", "g">>>>,
    <<<<"e", "n", "e", "r", "g", "y">>,
      <<"p", "o", "w", "e", "r">>,
      <<"o", "i", "l">>,
      <<"e", "l", "e", "c", "t", "r", "i", "c", "i", "t", "y">>,
      <<"g", "a", "s">>,
      <<"f", "u", "e", "l">>>>,
    <<<<"t", "e", "c", "h">>,
      <<"s", "t", "a", "r", "t", "u", "p">>,
      <<"a", "i">>,
      <<"s", "o", "f", "t", "w", "a", "r", "e">>,
      <<"d", "i", "g", "i", "t", "a", "l">>,
      <<"a", "p", "p">>>>,
    <<<<"c", "o", "m", "m", "u", "n", "i", "t", "y">>,
      <<"s", "o", "c", "i", "e", "t", "y">>,
      <<"s", "o", "c", "i", "a", "l">>,
      <<"c", "u", "l", "t", "u", "r", "e">>,
      <<"l", "i", "f", "e">>,
      <<"f", "a", "m", "i", "l", "y">>>>>>

\* matches[category] = words.filter((w) => contentLower.includes(w)).length
KeywordMatches(content) ==
  LET contentLower == toLowerCase(content)
  IN [c \in 1..Len(Categories) |->
        Cardinality({w \in 1..Len(Keywords[c]) :
                       includes(contentLower, Keywords[c][w])})]

\* the tweet scoreTweet is called with, by what the scorer reads of it
TweetOf(id, content, verified, retweets) ==
  ScraperTweet(id, "a", verified, retweets, Length(trim(replaceMarks(content))),
               CountOf(content, Emoji), CountOf(content, "#"),
               KeywordMatches(content))

\* the content of Test 1 of the logic verification
PresidentContent ==
  <<"T", "h", "e", " ", "p", "r", "e", "s", "i", "d", "e", "n", "t", " ", "a", "n", "n", "o",
    "u", "n", "c", "e", "d", " ", "a", " ", "n", "e", "w", " ", "p", "o", "l", "i", "c", "y",
    " ", "o", "n", " ", "e", "d", "u", "c", "a", "t", "i", "o", "n", ".">>

\* the content of Test 2
TooShortContent ==
  <<"T", "o", "o", " ", "s", "h", "o", "r", "t">>

\* the content of Test 3
GoodContent ==
  <<"T", "h", "e", " ", "c", "e", "n", "t", "r", "a", "l", " ", "b", "a", "n", "k", " ", "h",
    "a", "s", " ", "u", "p", "d", "a", "t", "e", "d", " ", "t", "h", "e", " ", "f", "o", "r",
    "e", "i", "g", "n", " ", "e", "x", "c", "h", "a", "n", "g", "e", " ", "r", "a", "t", "e",
    "s", " ", "f", "o", "r", " ", "t", "h", "e", " ", "n", "a", "i", "r", "a", " ", "t", "o",
    "d", "a", "y", ".", " ", "#", "E", "c", "o", "n", "o", "m", "y", " ", "#", "N", "i", "g",
    "e", "r", "i", "a">>

\* ----------------------------------------------------------- table tweets
\* tweet_id TEXT UNIQUE NOT NULL
TweetInsertOkNoUnique(rows, id) == TRUE

TweetInsertOk(rows, id) == \A i \in 1..Len(rows) : rows[i].tweet_id # id

\* (processed: true)
TweetRowProcessed(t, at) ==
  [tweet_id |-> t.tweet_id, author |-> t.author,
   author_verified |-> t.author_verified, retweet_count |-> t.retweet_count,
   cleanLen |-> t.cleanLen, emojiCount |-> t.emojiCount,
   hashtagCount |-> t.hashtagCount, hits |-> t.hits,
   ingested_at |-> at, processed |-> TRUE]

\* the row ingestTweetsFromScraper inserts
TweetRow(t, at) ==
  [tweet_id |-> t.tweet_id, author |-> t.author,
   author_verified |-> t.author_verified, retweet_count |-> t.retweet_count,
   cleanLen |-> t.cleanLen, emojiCount |-> t.emojiCount,
   hashtagCount |-> t.hashtagCount, hits |-> t.hits,
   ingested_at |-> at, processed |-> FALSE]

\* .select("tweet_id").eq("tweet_id", id).single(): data, or null
TweetExists(rows, id) == Cardinality({i \in 1..Len(rows) : rows[i].tweet_id = id}) = 1

\* (.gt("ingested_at", oneHourAgo).lte("ingested_at", broadcastHour))
SelectWindowOpenLeft(rows, broadcastHour) ==
  SelectSeq(rows, LAMBDA r : /\ r.ingested_at > broadcastHour - Hour
                             /\ r.ingested_at <= broadcastHour
                             /\ ~r.processed)

\* .gte("ingested_at", oneHourAgo).lt("ingested_at", broadcastHour).eq("processed", false)
SelectWindow(rows, broadcastHour) ==
  SelectSeq(rows, LAMBDA r : /\ r.ingested_at >= broadcastHour - Hour
                             /\ r.ingested_at < broadcastHour
                             /\ ~r.processed)

\* ---------------------------------------------------- table tweet_quality
\* tweet_id TEXT UNIQUE NOT NULL REFERENCES tweets(tweet_id)
QualityInsertOkNoUnique(rows, id) == TRUE

QualityInsertOk(rows, id) == \A i \in 1..Len(rows) : rows[i].tweet_id # id

\* the table with one more row; a table has no order of its own, the rows
\* are kept by tweet_id
QualityInsert(rows, row) ==
  LET before == SelectSeq(rows, LAMBDA r : r.tweet_id <= row.tweet_id)
      after  == SelectSeq(rows, LAMBDA r : r.tweet_id > row.tweet_id)
  IN before \o <<row>> \o after

QualityRow(id, score) ==
  [tweet_id |-> id, is_valid |-> score.is_valid,
   confidence_score |-> score.confidence_score,
   primary_category |-> score.primary_category,
   secondary_categories |-> score.secondary_categories,
   rejection_reason |-> score.rejection_reason]

\* .select("primary_category").eq("tweet_id", id).single(), then || "Social"
QualityCategory(rows, id) ==
  LET S == {i \in 1..Len(rows) : rows[i].tweet_id = id}
  IN IF Cardinality(S) = 1 THEN rows[CHOOSE i \in S : TRUE].primary_category
     ELSE "Social"

\* ------------------------------------------------------------ table audio
\* broadcast_id BIGINT UNIQUE NOT NULL
AudioInsertOkNoUnique(rows, bid) == TRUE

AudioInsertOk(rows, bid) == \A i \in 1..Len(rows) : rows[i].broadcast_id # bid

\* ------------------------------------------------------- table broadcasts
\* Date.toISOString(): the date down to the hour, then the rest of the instant;
\* nothing is rounded away
toISOString(t) == [hour |-> t \div Hour, rest |-> t % Hour]

\* the order of TIMESTAMPTZ values
IsoLess(a, b) == a.hour < b.hour \/ (a.hour = b.hour /\ a.rest < b.rest)

\* broadcast_hour TIMESTAMPTZ UNIQUE NOT NULL
BroadcastInsertOkNoUnique(rows, iso) == TRUE

BroadcastInsertOk(rows, iso) == \A i \in 1..Len(rows) : rows[i].broadcast_hour # iso

Unpublished(rows) == {i \in 1..Len(rows) : ~rows[i].is_published}

\* (ascending: false)
RECURSIVE OrderByHourDescending(_, _)
OrderByHourDescending(rows, S) ==
  IF S = {} THEN <<>>
  ELSE LET m == CHOOSE i \in S : \A j \in S :
                  \/ IsoLess(rows[j].broadcast_hour, rows[i].broadcast_hour)
                  \/ (rows[i].broadcast_hour = rows[j].broadcast_hour /\ i <= j)
       IN <<rows[m]>> \o OrderByHourDescending(rows, S \ {m})

\* .order("broadcast_hour", { ascending: true })
RECURSIVE OrderByHour(_, _)
OrderByHour(rows, S) ==
  IF S = {} THEN <<>>
  ELSE LET m == CHOOSE i \in S : \A j \in S :
                  \/ IsoLess(rows[i].broadcast_hour, rows[j].broadcast_hour)
                  \/ (rows[i].broadcast_hour = rows[j].broadcast_hour /\ i <= j)
       IN <<rows[m]>> \o OrderByHour(rows, S \ {m})

\* .eq("is_published", false).order(...).limit(10)
SelectUnpublished(rows) ==
  LET sorted == OrderByHour(rows, Unpublished(rows))
  IN SubSeq(sorted, 1, Min(QueueLimit, Len(sorted)))

\* .update({ is_published: true }).eq("id", bid)
MarkPublished(rows, bid) ==
  [i \in 1..Len(rows) |->
     IF rows[i].id = bid THEN [rows[i] EXCEPT !.is_published = TRUE] ELSE rows[i]]

\* ------------------------------------------------------------------ clock
Tick ==
  /\ now < MaxTime
  /\ now' = now + 1
  /\ UNCHANGED <<rt, ev, tweets, tweet_quality, broadcasts, audio, ing, pl, aq, faults>>

\* ------------------------------------------------ ingestTweetsFromScraper
IngIdle == [pc |-> "idle", page |-> <<>>, i |-> 0, insertedCount |-> 0]

\* the pages the scraper can answer with: up to limit tweets, repeats allowed
Pages == UNION {[1..n -> 1..MaxScraperId] : n \in 0..PageLimit}

\* the for loop moves to the next tweet of the page, or the run returns
\* (insertedCount is the value returned; the locals end with the call)
NextTweet(r) ==
  IF r.i < Len(r.page) THEN [r EXCEPT !.pc = "lookup", !.i = r.i + 1]
  ELSE [IngIdle EXCEPT !.pc = "done", !.insertedCount = r.insertedCount]

\* the ways the request to the scraper ends: a network error, the timeout of
\* fetchWithTimeout, a response that is not ok, a body with success false
FetchFailures == {"network", "timeout", "status", "unsuccessful"}

\* (result.success is not looked at: the tweets of the body are returned)
fetchTweetsFromScraperNoSuccessCheck(outcome, body) ==
  IF outcome \in {"ok", "unsuccessful"} THEN body ELSE <<>>

\* fetchTweetsFromScraper: the tweets of the body (result.data ||
\* result.tweets || []); every failure is thrown into the catch, which
\* returns []
fetchTweetsFromScraper(outcome, body) ==
  IF outcome = "ok" THEN body ELSE <<>>

\* ingestTweetsFromScraper after the fetch: no tweets returns 0 at once, else
\* the loop starts with insertedCount = 0
AfterFetch(fetched) ==
  IF Len(fetched) = 0 THEN [IngIdle EXCEPT !.pc = "done"]
  ELSE [pc |-> "lookup", page |-> fetched, i |-> 1, insertedCount |-> 0]

\* the scraper answers with a page
IFetch(g, page) ==
  /\ ing[g].pc = "idle"
  /\ ing' = [ing EXCEPT ![g] = AfterFetch(fetchTweetsFromScraper("ok", page))]
  /\ UNCHANGED <<rt, ev, now, tweets, tweet_quality, broadcasts, audio, pl, aq, faults>>

\* the request fails; body is what the response carried, if anything
IFetchFail(g, outcome, body) ==
  /\ ing[g].pc = "idle"
  /\ ing' = [ing EXCEPT ![g] = AfterFetch(fetchTweetsFromScraper(outcome, body))]
  /\ Fault
  /\ UNCHANGED <<rt, ev, now, tweets, tweet_quality, broadcasts, audio, pl, aq>>

\* the existence lookup answers: skip a stored tweet, insert an unseen one
ILookup(g) ==
  /\ ing[g].pc = "lookup"
  /\ ing' = [ing EXCEPT ![g] =
               IF TweetExists(tweets, ing[g].page[ing[g].i])
               THEN NextTweet(ing[g])
               ELSE [ing[g] EXCEPT !.pc = "insert"]]
  /\ UNCHANGED <<rt, ev, now, tweets, tweet_quality, broadcasts, audio, pl, aq, faults>>

\* the lookup returns an error: data is null and the insert is tried
ILookupError(g) ==
  /\ ing[g].pc = "lookup"
  /\ ing' = [ing EXCEPT ![g].pc = "insert"]
  /\ Fault
  /\ UNCHANGED <<rt, ev, now, tweets, tweet_quality, broadcasts, audio, pl, aq>>

\* supabase.from("tweets").insert(...) stores the row
IInsert(g) ==
  /\ ing[g].pc = "insert"
  /\ TweetInsertOk(tweets, ing[g].page[ing[g].i])
  /\ tweets' = Append(tweets, TweetRow(Catalog[ing[g].page[ing[g].i]], now))
  /\ ing' = [ing EXCEPT ![g] =
               NextTweet([ing[g] EXCEPT !.insertedCount = ing[g].insertedCount + 1])]
  /\ UNCHANGED <<rt, ev, now, tweet_quality, broadcasts, audio, pl, aq, faults>>

\* (insertedCount++ without a look at error)
InsertFailedCounted(r) ==
  NextTweet([r EXCEPT !.insertedCount = r.insertedCount + 1])

\* if (error) console.error(...) else insertedCount++;  and the catch of the
\* loop body: the failure is logged and the loop goes on
InsertFailed(r) == NextTweet(r)

\* the insert returns the error of the unique key
IInsertDuplicate(g) ==
  /\ ing[g].pc = "insert"
  /\ ~TweetInsertOk(tweets, ing[g].page[ing[g].i])
  /\ ing' = [ing EXCEPT ![g] = InsertFailed(ing[g])]
  /\ UNCHANGED <<rt, ev, now, tweets, tweet_quality, broadcasts, audio, pl, aq, faults>>

\* the insert returns another error, or throws
IInsertFail(g) ==
  /\ ing[g].pc = "insert"
  /\ ing' = [ing EXCEPT ![g] = InsertFailed(ing[g])]
  /\ Fault
  /\ UNCHANGED <<rt, ev, now, tweets, tweet_quality, broadcasts, audio, pl, aq>>

\* ------------------------------------------------------------ runPipeline
NoScore == [is_valid |-> FALSE, confidence_score |-> 0, primary_category |-> "Unknown",
            secondary_categories |-> <<>>, rejection_reason |-> <<>>]

PlIdle == [pc |-> "idle", target |-> 0, sel |-> <<>>, i |-> 0, score |-> NoScore,
           valid |-> <<>>, groups |-> <<>>, clusters |-> <<>>, sections |-> <<>>,
           result |-> "none"]

\* (the catch of runPipeline throws the error on to the caller)
ReturnedRethrow(r, result) ==
  [PlIdle EXCEPT !.pc = IF result \in {"noop", "created"} THEN "done" ELSE "thrown",
                 !.result = result]

\* runPipeline has returned; its locals end with the call.  result is what the
\* run logged: "noop" (no valid tweets), "created" ([SUCCESS]), "rejected"
\* ([FATAL] with the error of the unique key) or "error" ([FATAL], otherwise)
Returned(r, result) ==
  [PlIdle EXCEPT !.pc = IF result \in {"noop", "created"} THEN "done" ELSE "failed",
                 !.result = result]

Authors(items) == {items[k].author : k \in 1..Len(items)}

TweetIdsOf(items) == [k \in 1..Len(items) |-> items[k].tweet_id]

\* (tweets.length < 2)
TooFewBelowTwo(items) == Len(items) < MinClusterTweets - 1

\* if (tweets.length < 3)
TooFew(items) == Len(items) < MinClusterTweets

\* clusterTweets, tweets.length < 3: one catch-all cluster
CatchAll(items) ==
  [topic_name |-> "General News", primary_category |-> "Social",
   tweet_ids |-> TweetIdsOf(items),
   summary |-> [kind |-> "mixed", count |-> 0, category |-> "Social"],
   source_accounts |-> Authors(items)]

\* (every tweet under a key of its own)
AddToGroupAlwaysNew(groups, category, tweet) ==
  Append(groups, [category |-> category, items |-> <<tweet>>])

\* clusters[category].push(tweet), creating the key on its first use
AddToGroup(groups, category, tweet) ==
  IF \E k \in 1..Len(groups) : groups[k].category = category
  THEN [k \in 1..Len(groups) |->
          IF groups[k].category = category
          THEN [groups[k] EXCEPT !.items = Append(groups[k].items, tweet)]
          ELSE groups[k]]
  ELSE Append(groups, [category |-> category, items |-> <<tweet>>])

\* Object.entries(clusters).map(...): one Cluster per key, in key order
ToClusters(groups) ==
  [k \in 1..Len(groups) |->
     [topic_name |-> groups[k].category, primary_category |-> groups[k].category,
      tweet_ids |-> TweetIdsOf(groups[k].items),
      summary |-> [kind |-> "placeholder", count |-> Len(groups[k].items),
                   category |-> groups[k].category],
      source_accounts |-> Authors(groups[k].items)]]

\* the text the generative service answers with for a cluster
LlmSummary(cluster) ==
  [kind |-> "llm", count |-> Len(cluster.tweet_ids), category |-> cluster.primary_category]

\* (is_published: true)
BroadcastRowPublished(rows, r) ==
  [id |-> Len(rows) + 1, broadcast_hour |-> toISOString(r.target),
   full_script |-> [timestamp |-> r.target, sections |-> r.sections],
   cluster_count |-> Len(r.clusters), total_tweets_used |-> Len(r.valid),
   is_published |-> TRUE]

\* the row runPipeline inserts; id is the next value of the serial column
BroadcastRow(rows, r) ==
  [id |-> Len(rows) + 1, broadcast_hour |-> toISOString(r.target),
   full_script |-> [timestamp |-> r.target, sections |-> r.sections],
   cluster_count |-> Len(r.clusters), total_tweets_used |-> Len(r.valid),
   is_published |-> FALSE]

\* runPipeline() with the default argument new Date()
PStartDefault(p) ==
  /\ pl[p].pc = "idle"
  /\ pl' = [pl EXCEPT ![p] = [PlIdle EXCEPT !.pc = "filter", !.target = now]]
  /\ UNCHANGED <<rt, ev, now, tweets, tweet_quality, broadcasts, audio, ing, aq, faults>>

\* runPipeline(broadcastHour)
PStartAt(p, t) ==
  /\ pl[p].pc = "idle"
  /\ pl' = [pl EXCEPT ![p] = [PlIdle EXCEPT !.pc = "filter", !.target = t]]
  /\ UNCHANGED <<rt, ev, now, tweets, tweet_quality, broadcasts, audio, ing, aq, faults>>

\* scoreAndFilterTweets reads the window; no tweets: [] is returned and
\* runPipeline returns on validTweets.length === 0
PFilterSelect(p) ==
  /\ pl[p].pc = "filter"
  /\ LET sel == SelectWindow(tweets, pl[p].target)
     IN pl' = [pl EXCEPT ![p] =
                 IF Len(sel) = 0 THEN Returned(pl[p], "noop")
                 ELSE [pl[p] EXCEPT !.sel = sel, !.i = 1, !.pc = "score"]]
  /\ UNCHANGED <<rt, ev, now, tweets, tweet_quality, broadcasts, audio, ing, aq, faults>>

\* if (error) throw error;  caught by runPipeline
PFilterSelectError(p) ==
  /\ pl[p].pc = "filter"
  /\ pl' = [pl EXCEPT ![p] = Returned(pl[p], "error")]
  /\ Fault
  /\ UNCHANGED <<rt, ev, now, tweets, tweet_quality, broadcasts, audio, ing, aq>>

\* scoreTweet(tweet); lookupOk: the categories row was read
PScore(p, lookupOk) ==
  /\ pl[p].pc = "score"
  /\ pl' = [pl EXCEPT ![p].score = scoreTweet(pl[p].sel[pl[p].i], Undefined, lookupOk),
                      ![p].pc = "save"]
  /\ IF lookupOk THEN UNCHANGED faults ELSE Fault
  /\ UNCHANGED <<rt, ev, now, tweets, tweet_quality, broadcasts, audio, ing, aq>>

\* (the return on validTweets.length === 0 is missing)
AfterFilterNoReturn(r) ==
  IF TooFew(r.valid)
  THEN [r EXCEPT !.pc = "summarize", !.i = 1, !.clusters = <<CatchAll(r.valid)>>]
  ELSE [r EXCEPT !.pc = "cluster", !.i = 1]

\* runPipeline after scoreAndFilterTweets returned: no valid tweet ends the
\* run; fewer than three give the catch-all cluster; else clustering starts
AfterFilter(r) ==
  IF Len(r.valid) = 0 THEN Returned(r, "noop")
  ELSE IF TooFew(r.valid)
  THEN [r EXCEPT !.pc = "summarize", !.i = 1, !.clusters = <<CatchAll(r.valid)>>]
  ELSE [r EXCEPT !.pc = "cluster", !.i = 1]

\* if (score.is_valid) validTweets.push(tweet); then the next tweet
AfterSave(r) ==
  LET v == IF r.score.is_valid THEN Append(r.valid, r.sel[r.i]) ELSE r.valid
  IN IF r.i < Len(r.sel)
     THEN [r EXCEPT !.valid = v, !.i = r.i + 1, !.pc = "score"]
     ELSE AfterFilter([r EXCEPT !.valid = v])

\* supabase.from("tweet_quality").insert(...) stores the score
PSaveQuality(p) ==
  /\ pl[p].pc = "save"
  /\ QualityInsertOk(tweet_quality, pl[p].sel[pl[p].i].tweet_id)
  /\ tweet_quality' = QualityInsert(tweet_quality,
                                    QualityRow(pl[p].sel[pl[p].i].tweet_id, pl[p].score))
  /\ pl' = [pl EXCEPT ![p] = AfterSave(pl[p])]
  /\ UNCHANGED <<rt, ev, now, tweets, broadcasts, audio, ing, aq, faults>>

\* the insert returns the error of the unique key, which the code never
\* looks at
PSaveQualityDuplicate(p) ==
  /\ pl[p].pc = "save"
  /\ ~QualityInsertOk(tweet_quality, pl[p].sel[pl[p].i].tweet_id)
  /\ pl' = [pl EXCEPT ![p] = AfterSave(pl[p])]
  /\ UNCHANGED <<rt, ev, now, tweets, tweet_quality, broadcasts, audio, ing, aq, faults>>

\* the insert returns another error, which the code never looks at either
PSaveQualityError(p) ==
  /\ pl[p].pc = "save"
  /\ pl' = [pl EXCEPT ![p] = AfterSave(pl[p])]
  /\ Fault
  /\ UNCHANGED <<rt, ev, now, tweets, tweet_quality, broadcasts, audio, ing, aq>>

\* the end of the loop of clusterTweets
AfterClusterRead(r, category) ==
  LET g == AddToGroup(r.groups, category, r.valid[r.i])
  IN IF r.i < Len(r.valid)
     THEN [r EXCEPT !.groups = g, !.i = r.i + 1]
     ELSE [r EXCEPT !.groups = g, !.clusters = ToClusters(g),
                    !.i = 1, !.pc = "summarize"]

\* clusterTweets reads the persisted primary category of one tweet
PClusterRead(p) ==
  /\ pl[p].pc = "cluster"
  /\ pl' = [pl EXCEPT ![p] =
              AfterClusterRead(pl[p], QualityCategory(tweet_quality,
                                                      pl[p].valid[pl[p].i].tweet_id))]
  /\ UNCHANGED <<rt, ev, now, tweets, tweet_quality, broadcasts, audio, ing, aq, faults>>

\* the read returns an error: quality is null and the category is "Social"
PClusterReadError(p) ==
  /\ pl[p].pc = "cluster"
  /\ pl' = [pl EXCEPT ![p] = AfterClusterRead(pl[p], "Social")]
  /\ Fault
  /\ UNCHANGED <<rt, ev, now, tweets, tweet_quality, broadcasts, audio, ing, aq>>

\* sections.push(summary); after the last of clusters.slice(0, 5) the script
\* is assembled and the insert follows
AfterSummary(r, summary) ==
  IF r.i < Min(TopClusters, Len(r.clusters))
  THEN [r EXCEPT !.sections = Append(r.sections, summary), !.i = r.i + 1]
  ELSE [r EXCEPT !.sections = Append(r.sections, summary), !.pc = "insert"]

\* summarizeCluster: the service answers with a text
PSummarize(p) ==
  /\ pl[p].pc = "summarize"
  /\ pl' = [pl EXCEPT ![p] = AfterSummary(pl[p], LlmSummary(pl[p].clusters[pl[p].i]))]
  /\ UNCHANGED <<rt, ev, now, tweets, tweet_quality, broadcasts, audio, ing, aq, faults>>

\* the answer has no candidates[0].content.parts[0].text: || cluster.summary
PSummarizeFallback(p) ==
  /\ pl[p].pc = "summarize"
  /\ pl' = [pl EXCEPT ![p] = AfterSummary(pl[p], pl[p].clusters[pl[p].i].summary)]
  /\ Fault
  /\ UNCHANGED <<rt, ev, now, tweets, tweet_quality, broadcasts, audio, ing, aq>>

\* (the exception is swallowed and the script is assembled without the section)
SummarizeThrownSwallowed(r) == [r EXCEPT !.pc = "insert"]

\* fetch or response.json() throws: the run ends in the catch of runPipeline
SummarizeThrown(r) == Returned(r, "error")

PSummarizeThrow(p) ==
  /\ pl[p].pc = "summarize"
  /\ pl' = [pl EXCEPT ![p] = SummarizeThrown(pl[p])]
  /\ Fault
  /\ UNCHANGED <<rt, ev, now, tweets, tweet_quality, broadcasts, audio, ing, aq>>

\* supabase.from("broadcasts").insert(...) stores the broadcast
PInsert(p) ==
  /\ pl[p].pc = "insert"
  /\ BroadcastInsertOk(broadcasts, toISOString(pl[p].target))
  /\ broadcasts' = Append(broadcasts, BroadcastRow(broadcasts, pl[p]))
  /\ pl' = [pl EXCEPT ![p] = Returned(pl[p], "created")]
  /\ UNCHANGED <<rt, ev, now, tweets, tweet_quality, audio, ing, aq, faults>>

\* if (error) throw error;  thrown for the error of the unique key
InsertRejected(r) == Returned(r, "rejected")

PInsertDuplicate(p) ==
  /\ pl[p].pc = "insert"
  /\ ~BroadcastInsertOk(broadcasts, toISOString(pl[p].target))
  /\ pl' = [pl EXCEPT ![p] = InsertRejected(pl[p])]
  /\ UNCHANGED <<rt, ev, now, tweets, tweet_quality, broadcasts, audio, ing, aq, faults>>

\* if (error) throw error;  thrown for a failure of the store
PInsertError(p) ==
  /\ pl[p].pc = "insert"
  /\ pl' = [pl EXCEPT ![p] = Returned(pl[p], "error")]
  /\ Fault
  /\ UNCHANGED <<rt, ev, now, tweets, tweet_quality, broadcasts, audio, ing, aq>>

\* ------------------------------------------------------ processAudioQueue
AqIdle == [pc |-> "idle", batch |-> <<>>, i |-> 0, attempted |-> <<>>,
           failed |-> {}, prevFailed |-> {}]

Cur(q) == aq[q].batch[aq[q].i]

\* (no inner try/catch: the first failure ends the run)
NextItemStopOnFailure(r, failedNow) ==
  IF r.i < Len(r.batch) /\ failedNow = {}
  THEN [r EXCEPT !.pc = "tts", !.i = r.i + 1]
  ELSE [r EXCEPT !.pc = "done", !.failed = r.failed \cup failedNow]

\* (a failed broadcast is tried again in the same run)
NextItemRetry(r, failedNow) ==
  IF failedNow # {} /\ r.failed = {}
  THEN [r EXCEPT !.pc = "tts", !.failed = failedNow]
  ELSE IF r.i < Len(r.batch)
  THEN [r EXCEPT !.pc = "tts", !.i = r.i + 1, !.failed = r.failed \cup failedNow]
  ELSE [r EXCEPT !.pc = "done", !.failed = r.failed \cup failedNow]

\* the loop moves to the next broadcast of the batch, or the run ends
NextItem(r, failedNow) ==
  IF r.i < Len(r.batch)
  THEN [r EXCEPT !.pc = "tts", !.i = r.i + 1, !.failed = r.failed \cup failedNow]
  ELSE [r EXCEPT !.pc = "done", !.failed = r.failed \cup failedNow]

\* catch (err) { ... // Continue with next broadcast }
ItemFailed(q) == aq' = [aq EXCEPT ![q] = NextItem(aq[q], {Cur(q).id})]

\* the unpublished-broadcast query succeeds
QSelect(q) ==
  /\ aq[q].pc \in {"idle", "done", "failed"}
  /\ LET b == SelectUnpublished(broadcasts)
     IN aq' = [aq EXCEPT ![q] =
                 [pc |-> IF Len(b) = 0 THEN "done" ELSE "tts",
                  batch |-> b, i |-> IF Len(b) = 0 THEN 0 ELSE 1,
                  attempted |-> <<>>, failed |-> {},
                  prevFailed |-> aq[q].failed]]
  /\ UNCHANGED <<rt, ev, now, tweets, tweet_quality, broadcasts, audio, ing, pl, faults>>

\* if (error) throw error;  the outer catch rethrows
QSelectError(q) ==
  /\ aq[q].pc \in {"idle", "done", "failed"}
  /\ aq' = [aq EXCEPT ![q] = [AqIdle EXCEPT !.pc = "failed",
                                            !.prevFailed = aq[q].failed]]
  /\ Fault
  /\ UNCHANGED <<rt, ev, now, tweets, tweet_quality, broadcasts, audio, ing, pl>>

\* generateAudioWithYarnGPT returns the audio buffer
QTts(q) ==
  /\ aq[q].pc = "tts"
  /\ aq' = [aq EXCEPT ![q].pc = "upload",
                      ![q].attempted = Append(aq[q].attempted, Cur(q).id)]
  /\ UNCHANGED <<rt, ev, now, tweets, tweet_quality, broadcasts, audio, ing, pl, faults>>

\* generateAudioWithYarnGPT throws (network error or response not ok)
QTtsFail(q) ==
  /\ aq[q].pc = "tts"
  /\ aq' = [aq EXCEPT ![q] =
              NextItem([aq[q] EXCEPT !.attempted = Append(aq[q].attempted, Cur(q).id)],
                       {Cur(q).id})]
  /\ Fault
  /\ UNCHANGED <<rt, ev, now, tweets, tweet_quality, broadcasts, audio, ing, pl>>

\* uploadAudioToR2 returns the public URL
QUpload(q) ==
  /\ aq[q].pc = "upload"
  /\ aq' = [aq EXCEPT ![q].pc = "insert"]
  /\ UNCHANGED <<rt, ev, now, tweets, tweet_quality, broadcasts, audio, ing, pl, faults>>

\* uploadAudioToR2 throws
QUploadFail(q) ==
  /\ aq[q].pc = "upload"
  /\ ItemFailed(q)
  /\ Fault
  /\ UNCHANGED <<rt, ev, now, tweets, tweet_quality, broadcasts, audio, ing, pl>>

\* supabase.from("audio").insert(...) stores the row
QInsertAudio(q) ==
  /\ aq[q].pc = "insert"
  /\ AudioInsertOk(audio, Cur(q).id)
  /\ audio' = Append(audio, [broadcast_id |-> Cur(q).id, voice_used |-> "Idera"])
  /\ aq' = [aq EXCEPT ![q].pc = "update"]
  /\ UNCHANGED <<rt, ev, now, tweets, tweet_quality, broadcasts, ing, pl, faults>>

\* (audioError is not looked at)
InsertAudioFailedIgnored(q) == aq' = [aq EXCEPT ![q].pc = "update"]

\* if (audioError) throw audioError;
InsertAudioFailed(q) == ItemFailed(q)

\* the insert returns audioError for the unique key
QInsertAudioDuplicate(q) ==
  /\ aq[q].pc = "insert"
  /\ ~AudioInsertOk(audio, Cur(q).id)
  /\ InsertAudioFailed(q)
  /\ UNCHANGED <<rt, ev, now, tweets, tweet_quality, broadcasts, audio, ing, pl, faults>>

\* the insert returns audioError for a failure of the store
QInsertAudioFail(q) ==
  /\ aq[q].pc = "insert"
  /\ InsertAudioFailed(q)
  /\ Fault
  /\ UNCHANGED <<rt, ev, now, tweets, tweet_quality, broadcasts, audio, ing, pl>>

\* the update of is_published succeeds
QUpdate(q) ==
  /\ aq[q].pc = "update"
  /\ broadcasts' = MarkPublished(broadcasts, Cur(q).id)
  /\ aq' = [aq EXCEPT ![q] = NextItem(aq[q], {})]
  /\ UNCHANGED <<rt, ev, now, tweets, tweet_quality, audio, ing, pl, faults>>

\* the update returns updateError
QUpdateFail(q) ==
  /\ aq[q].pc = "update"
  /\ ItemFailed(q)
  /\ Fault
  /\ UNCHANGED <<rt, ev, now, tweets, tweet_quality, broadcasts, audio, ing, pl>>

\* ------------------------------------------------- retry, fetchWithTimeout
Err(name, message) == [name |-> name, message |-> message]

\* what fetch rejects with when controller.abort() has fired
AbortError == Err("AbortError", <<"This operation was aborted">>)

\* what fetch rejects with when the network fails
FetchFailed == Err("TypeError", <<"fetch failed">>)

\* the ways a fetch settles: with a response, or rejected with an error
Response == [settled |-> "response"]

Rejected(e) == [settled |-> "rejected", error |-> e]

FetchOutcomes == {Response, Rejected(AbortError), Rejected(FetchFailed)}

\* timeoutMs: number = 30000, in seconds
DefaultTimeout == 30

\* fetchWithTimeout: the response, or what its catch throws
fetchWithTimeout(outcome, timeoutMs) ==
  IF outcome.settled = "response" THEN [threw |-> FALSE, value |-> "response"]
  ELSE IF outcome.error.name = "AbortError"
  THEN [threw |-> TRUE, error |-> Err("Error", <<"Request timeout after", timeoutMs>>)]
  ELSE [threw |-> TRUE, error |-> outcome.error]

\* the errors fetchTweetsFromScraper, the caller of fetchWithTimeout, throws
\* itself into the same catch: response not ok, success false
ScraperApiError == Err("Error", <<"Scraper API error">>)

ScraperApiFailed == Err("Error", <<"Scraper API failed">>)

RECURSIVE Pow(_, _)
Pow(b, e) == IF e = 0 THEN 1 ELSE b * Pow(b, e - 1)

\* the options a caller passes to retry
RetryOptions ==
  [maxRetries : 0..MaxRetries, initialDelayMs : 1..MaxDelayMs,
   maxDelayMs : 1..MaxDelayMs, backoffMultiplier : 1..2]

\* (the delay without Math.min(..., maxDelayMs))
RetryDelayUncapped(opts, attempt) ==
  opts.initialDelayMs * Pow(opts.backoffMultiplier, attempt)

\* Math.min(initialDelayMs * Math.pow(backoffMultiplier, attempt), maxDelayMs)
RetryDelay(opts, attempt) ==
  Min(opts.initialDelayMs * Pow(opts.backoffMultiplier, attempt), opts.maxDelayMs)

\* (attempt === opts.maxRetries - 1)
LastAttemptOffByOne(r) == r.attempt >= r.opts.maxRetries - 1

\* attempt === opts.maxRetries
LastAttempt(r) == r.attempt = r.opts.maxRetries

\* the catch of the loop body: after the last attempt a new Error with the
\* message of lastError is thrown; else the delay is computed and waited for
RetryCatch(r, e) ==
  LET c == [r EXCEPT !.calls = r.calls + 1, !.errors = Append(r.errors, e)]
  IN IF LastAttempt(r)
     THEN [c EXCEPT !.pc = "thrown",
                    !.result = Err("Error", <<"Failed after", r.opts.maxRetries,
                                              "retries">> \o e.message)]
     ELSE [c EXCEPT !.pc = "wait", !.delay = RetryDelay(r.opts, r.attempt)]

\* retry(fn, options): the loop starts with attempt = 0
RStart(opts) ==
  /\ rt.pc = "idle"
  /\ rt' = [pc |-> "call", opts |-> opts, attempt |-> 0, calls |-> 0,
            errors |-> <<>>, outcome |-> Response, delay |-> 0, waited |-> <<>>,
            result |-> <<>>]
  /\ UNCHANGED <<now, tweets, tweet_quality, broadcasts, audio, ing, pl, aq, faults, ev>>

\* return await fn(): the operation, a call of fetchWithTimeout, returns
RCallReturns(outcome) ==
  /\ rt.pc = "call"
  /\ ~fetchWithTimeout(outcome, DefaultTimeout).threw
  /\ rt' = [rt EXCEPT !.pc = "returned", !.calls = rt.calls + 1, !.outcome = outcome,
                      !.result = fetchWithTimeout(outcome, DefaultTimeout).value]
  /\ UNCHANGED <<now, tweets, tweet_quality, broadcasts, audio, ing, pl, aq, faults, ev>>

\* the operation throws
RCallThrows(outcome) ==
  /\ rt.pc = "call"
  /\ fetchWithTimeout(outcome, DefaultTimeout).threw
  /\ rt' = RetryCatch([rt EXCEPT !.outcome = outcome],
                      fetchWithTimeout(outcome, DefaultTimeout).error)
  /\ UNCHANGED <<now, tweets, tweet_quality, broadcasts, audio, ing, pl, aq, faults, ev>>

\* the timer of setTimeout(resolve, delay) fires: the next attempt
RWake ==
  /\ rt.pc = "wait"
  /\ rt' = [rt EXCEPT !.pc = "call", !.attempt = rt.attempt + 1,
                      !.waited = Append(rt.waited, rt.delay)]
  /\ UNCHANGED <<now, tweets, tweet_quality, broadcasts, audio, ing, pl, aq, faults, ev>>

\* ------------------------------------------- calls of the exported scorers
\* the contents scoreTweet is called with: spaces, hashtags, letters, emojis
\* and spaces again, and the contents of the logic verification
ScoreContents ==
  {Repeat(" ", a) \o Repeat("#", h) \o Repeat("x", n) \o Repeat(Emoji, e)
     \o Repeat(" ", b) :
     a \in 0..MaxPad, h \in {0, 5, 6}, n \in {9, 14, 15}, e \in {0, 3, 5, 6},
     b \in 0..MaxPad}
  \cup {TooShortContent, GoodContent}

\* retweet_count, around the 0 and the 100 of the engagement signal
RetweetCounts == {0, 100, 101}

\* categoryThresholdOverride, in tenths
Overrides == {Undefined, <<5>>, <<9>>, <<10>>, <<12>>}

\* words the contents categorizeTweet is called with are made of
Vocabulary ==
  <<<<"p", "r", "e", "s", "i", "d", "e", "n", "t">>,
    <<"m", "i", "n", "i", "s", "t", "e", "r">>,
    <<"a", "t", "t", "a", "c", "k">>,
    <<"n", "a", "i", "r", "a">>,
    <<"s", "c", "h", "o", "o", "l">>,
    <<"e", "d", "u", "c", "a", "t", "i", "o", "n">>,
    <<"s", "a", "i", "d">>,
    <<"l", "a", "g", "o", "s">>>>

RECURSIVE Sentence(_)
\* the words of ws, separated by spaces
Sentence(ws) ==
  IF Len(ws) = 0 THEN <<>>
  ELSE IF Len(ws) = 1 THEN Vocabulary[ws[1]]
  ELSE Vocabulary[ws[1]] \o <<" ">> \o Sentence(Tail(ws))

CategorizeContents ==
  {Sentence(ws) : ws \in UNION {[1..n -> 1..Len(Vocabulary)] : n \in 0..MaxWords}}
  \cup {PresidentContent, TooShortContent, GoodContent,
        Sentence([k \in 1..Len(Vocabulary) |-> k])}

\* const result = await scoreTweet(tweet, override)
EvScore(lookupOk) ==
  /\ ev.pc = "score"
  /\ ev.categoryThresholdOverride # Undefined => ~lookupOk
  /\ ev' = [ev EXCEPT !.pc = "scored",
                      !.lookupOk = lookupOk,
                      !.result = scoreTweet(ev.tweet, ev.categoryThresholdOverride,
                                            lookupOk)]
  /\ UNCHANGED <<now, tweets, tweet_quality, broadcasts, audio, ing, pl, aq,
                 faults, rt>>

\* const cat = categorizeTweet(content)
EvCategorize ==
  /\ ev.pc = "categorize"
  /\ ev' = [ev EXCEPT !.pc = "categorized",
                      !.result = categorizeTweet(KeywordMatches(ev.content))]
  /\ UNCHANGED <<now, tweets, tweet_quality, broadcasts, audio, ing, pl, aq,
                 faults, rt>>

\* -------------------------------------------------- calls of clusterTweets
\* the categories the tweets handed to clusterTweets are stored with
ClusterLabels == {"Economy", "Politics", "Social"}

\* the lists clusterTweets is called with: the k-th tweet has the id k
ClusterInputs ==
  UNION {[1..n -> [author : {"a", "b"}, label : ClusterLabels]] : n \in 0..MaxItems}

\* the tweets of an input
InputTweets(input) ==
  [k \in 1..Len(input) |-> [tweet_id |-> k, author |-> input[k].author]]

\* the end of one round of the loop of clusterTweets
AfterCategory(e, category) ==
  LET g == AddToGroup(e.groups, category, e.tweets[e.i])
  IN IF e.i < Len(e.tweets)
     THEN [e EXCEPT !.groups = g, !.read = Append(e.read, category), !.i = e.i + 1]
     ELSE [e EXCEPT !.groups = g, !.read = Append(e.read, category),
                    !.result = ToClusters(g), !.pc = "clustered"]

\* if (tweets.length < 3) return [the catch-all cluster]
EvClusterFew ==
  /\ ev.pc = "cluster"
  /\ TooFew(ev.tweets)
  /\ ev' = [ev EXCEPT !.pc = "clustered", !.result = <<CatchAll(ev.tweets)>>]
  /\ UNCHANGED <<now, tweets, tweet_quality, broadcasts, audio, ing, pl, aq,
                 faults, rt>>

\* the category of the tweet is read: quality.primary_category, or what
\* getCategoryOverride returns
EvClusterRead ==
  /\ ev.pc = "cluster"
  /\ ~TooFew(ev.tweets)
  /\ ev' = AfterCategory(ev, ev.labels[ev.i])
  /\ UNCHANGED <<now, tweets, tweet_quality, broadcasts, audio, ing, pl, aq,
                 faults, rt>>

\* the read returns an error: quality is null and the category is "Social"
EvClusterReadError ==
  /\ ev.pc = "cluster"
  /\ ~TooFew(ev.tweets)
  /\ ev' = AfterCategory(ev, "Social")
  /\ Fault
  /\ UNCHANGED <<now, tweets, tweet_quality, broadcasts, audio, ing, pl, aq, rt>>

\* ---------------------------------------- calls of generateBroadcastScript
\* A script is the sequence of its words, spaces and line breaks; the marks
\* that the template puts right after a word are elements of their own.
\* new Date(broadcastHour).toLocaleString("en-NG"): a date, a comma, a space
\* and a time
toLocaleString(t) == <<"date", ",", " ", "time">>

NumberWords == <<"1", "2", "3", "4", "5", "6", "7", "8", "9">>

\* the text of a summary: the answer of the generative service, or the
\* summary clusterTweets gave the cluster
SummaryText(summary) ==
  CASE summary.kind = "llm" ->
         <<"News", " ", "of", " ", NumberWords[summary.count], " ", "tweets", " ",
           "of", " ", summary.category, ".">>
    [] summary.kind = "placeholder" ->
         <<NumberWords[summary.count], " ", "updates", " ", "in", " ",
           summary.category>>
    [] OTHER -> <<"Mixed", " ", "news", " ", "updates">>

\* the first line of the template, up to the timestamp
Preamble ==
  <<"Good", " ", "afternoon.", " ", "This", " ", "is", " ", "the", " ",
    "Nigerian", " ", "News", " ", "Brief", " ", "for">>

\* the line after the sections
MoreUpdates ==
  <<"For", " ", "more", " ", "updates,", " ", "visit", " ", "our", " ",
    "website", " ", "or", " ", "follow", " ", "us", " ", "on", " ", "social",
    " ", "media.">>

\* the last line of the template
SignOff ==
  <<"This", " ", "has", " ", "been", " ", "the", " ", "Nigerian", " ",
    "News", " ", "Brief.", " ", "Thank", " ", "you", " ", "for", " ",
    "listening.">>

BlankLine == <<"\n", "\n">>

RECURSIVE Join(_, _)
\* parts.join(sep)
Join(parts, sep) ==
  IF Len(parts) = 0 THEN <<>>
  ELSE IF Len(parts) = 1 THEN parts[1]
  ELSE parts[1] \o sep \o Join(Tail(parts), sep)

\* sections.map((s, i) => `${i + 1}. ${s}`)
NumberedSections(sections) ==
  [i \in 1..Len(sections) |->
     <<NumberWords[i], ".", " ">> \o SummaryText(sections[i])]

\* the template of the script, trimmed
ScriptText(t, sections) ==
  trim(<<"\n">> \o Preamble \o <<" ">> \o toLocaleString(t) \o <<".">> \o BlankLine
       \o Join(NumberedSections(sections), BlankLine) \o BlankLine
       \o MoreUpdates \o BlankLine \o SignOff \o <<"\n">>)

\* script.split(" ").length
splitAtSpace(script) == 1 + CountOf(script, " ")

\* the clusters generateBroadcastScript is called with, by the number of
\* tweets of each: the k-th is the cluster of the k-th category
ScriptClusters(sizes) ==
  ToClusters([k \in 1..Len(sizes) |->
                [category |-> Categories[k],
                 items |-> [j \in 1..sizes[k] |->
                              [tweet_id |-> 10 * k + j, author |-> "a"]]]])

ScriptInputs == UNION {[1..n -> 1..2] : n \in 0..MaxClusters}

\* (every cluster, without the limit)
sliceAll(clusters) == clusters

\* clusters.slice(0, 5)
slice(clusters) == SubSeq(clusters, 1, Min(TopClusters, Len(clusters)))

\* sections.push(summary), and the next cluster
AfterSection(e, summary) ==
  [e EXCEPT !.sections = Append(e.sections, summary),
            !.summarized = Append(e.summarized, e.i),
            !.i = e.i + 1]

\* summarizeCluster: the service answers with a text
EvSummarize ==
  /\ ev.pc = "script"
  /\ ev.i <= Len(slice(ev.clusters))
  /\ ev' = AfterSection(ev, LlmSummary(ev.clusters[ev.i]))
  /\ UNCHANGED <<now, tweets, tweet_quality, broadcasts, audio, ing, pl, aq,
                 faults, rt>>

\* the answer has no candidates[0].content.parts[0].text: || cluster.summary
EvSummarizeFallback ==
  /\ ev.pc = "script"
  /\ ev.i <= Len(slice(ev.clusters))
  /\ ev' = AfterSection(ev, ev.clusters[ev.i].summary)
  /\ Fault
  /\ UNCHANGED <<now, tweets, tweet_quality, broadcasts, audio, ing, pl, aq, rt>>

\* fetch or response.json() throws, and generateBroadcastScript with it
EvSummarizeThrow ==
  /\ ev.pc = "script"
  /\ ev.i <= Len(slice(ev.clusters))
  /\ ev' = [ev EXCEPT !.pc = "thrown"]
  /\ Fault
  /\ UNCHANGED <<now, tweets, tweet_quality, broadcasts, audio, ing, pl, aq, rt>>

\* the loop is over: the script is formatted and its words are counted
EvAssemble ==
  /\ ev.pc = "script"
  /\ ev.i > Len(slice(ev.clusters))
  /\ ev' = [ev EXCEPT !.pc = "scripted",
                      !.script = ScriptText(ev.broadcastHour, ev.sections),
                      !.wordCount = splitAtSpace(ScriptText(ev.broadcastHour,
                                                            ev.sections))]
  /\ UNCHANGED <<now, tweets, tweet_quality, broadcasts, audio, ing, pl, aq,
                 faults, rt>>

\* ---------------------------------------------------------- the read API
\* (the broadcasts without .eq("is_published", true))
OfAnyState(rows) == 1..Len(rows)

\* .eq("is_published", true)
PublishedOnly(rows) == {i \in 1..Len(rows) : rows[i].is_published}

\* .order("broadcast_hour", { ascending: false }) of the selected rows
NewestFirst(rows, S) ==
  LET oldestFirst == OrderByHour(rows, S)
  IN [k \in 1..Len(oldestFirst) |-> oldestFirst[Len(oldestFirst) + 1 - k]]

\* the row with the columns of its audio: audio (audio_url, ...)
WithAudio(row) ==
  [broadcast |-> row,
   audio |-> {a \in Range(audio) : a.broadcast_id = row.id}]

\* res.json({ success: true, data })
Json(route, data) ==
  [pc |-> "responded", route |-> route, status |-> 200, data |-> data]

\* the catch of a handler: res.status(500).json({ success: false, error })
ServerError(route) ==
  [pc |-> "responded", route |-> route, status |-> 500, data |-> <<>>]

\* GET /broadcasts/latest; .single() returns an error when no row matches
GLatest ==
  /\ LET sorted == NewestFirst(broadcasts, PublishedOnly(broadcasts))
     IN ev' = IF Len(sorted) = 0 THEN ServerError("latest")
              ELSE Json("latest", <<WithAudio(sorted[1])>>)
  /\ UNCHANGED <<now, tweets, tweet_quality, broadcasts, audio, ing, pl, aq,
                 faults, rt>>

\* GET /broadcasts/:id; .single() returns an error when no row matches
GById(id) ==
  /\ LET found == {i \in PublishedOnly(broadcasts) : broadcasts[i].id = id}
     IN ev' = IF found = {} THEN ServerError("id")
              ELSE Json("id", <<WithAudio(broadcasts[CHOOSE i \in found : TRUE])>>)
  /\ UNCHANGED <<now, tweets, tweet_quality, broadcasts, audio, ing, pl, aq,
                 faults, rt>>

\* GET /broadcasts?page=&limit=; .range(offset, offset + limit - 1)
GList(page, limit) ==
  /\ LET sorted == NewestFirst(broadcasts, PublishedOnly(broadcasts))
         offset == (page - 1) * limit
         last   == Min(offset + limit, Len(sorted))
     IN ev' = Json("list", [k \in 1..(IF last > offset THEN last - offset ELSE 0) |->
                              WithAudio(sorted[offset + k])])
  /\ UNCHANGED <<now, tweets, tweet_quality, broadcasts, audio, ing, pl, aq,
                 faults, rt>>

\* if (error) throw error;  the query of a handler fails
GQueryError(route) ==
  /\ ev' = ServerError(route)
  /\ Fault
  /\ UNCHANGED <<now, tweets, tweet_quality, broadcasts, audio, ing, pl, aq, rt>>

\* ------------------------------------------------- the start of a service
Services == {"pipeline", "audio", "gateway"}

\* the variables of the environment the services read at their start
EnvVars ==
  {"SUPABASE_URL", "SUPABASE_KEY", "GEMINI_API_KEY", "YARNGPT_API_KEY",
   "R2_ACCOUNT_ID", "R2_ACCESS_KEY", "R2_SECRET_KEY", "R2_BUCKET_NAME", "R2_DOMAIN"}

\* process.env: a variable is unset, set to the empty string, or has a value
Environments == [EnvVars -> {"unset", "empty", "value"}]

\* const required = [...] of the validateEnv of each service
Required(service) ==
  CASE service = "pipeline" -> {"SUPABASE_URL", "SUPABASE_KEY", "GEMINI_API_KEY"}
    [] service = "audio" ->
         {"SUPABASE_URL", "SUPABASE_KEY", "YARNGPT_API_KEY", "R2_ACCOUNT_ID",
          "R2_ACCESS_KEY", "R2_SECRET_KEY", "R2_BUCKET_NAME", "R2_DOMAIN"}
    [] OTHER -> {"SUPABASE_URL", "SUPABASE_KEY"}

\* if (!process.env[key]) missing.push(key);  if (missing.length > 0) throw
validateEnv(required, env) ==
  LET missing == {key \in required : env[key] # "value"}
  IN [threw |-> missing # {}, missing |-> missing]

\* queue.ts, storage and server.ts: const env = validateEnv() when the module
\* is loaded, before the client of the store is made
EvLoadValidated ==
  /\ ev.pc = "load"
  /\ ev.service \in {"audio", "gateway"}
  /\ LET r == validateEnv(Required(ev.service), ev.env)
     IN ev' = [ev EXCEPT !.pc = IF r.threw THEN "fatal" ELSE "ready",
                         !.missing = r.missing]
  /\ UNCHANGED <<now, tweets, tweet_quality, broadcasts, audio, ing, pl, aq,
                 faults, rt>>

\* main.ts: createClient(process.env.SUPABASE_URL!, process.env.SUPABASE_KEY!)
\* when the module is loaded; validateEnv is not called.  createClient throws
\* for an url or a key that is undefined or empty
EvLoadPipeline ==
  /\ ev.pc = "load"
  /\ ev.service = "pipeline"
  /\ ev' = [ev EXCEPT !.pc = IF \A key \in {"SUPABASE_URL", "SUPABASE_KEY"} :
                                    ev.env[key] = "value"
                               THEN "ready" ELSE "fatal"]
  /\ UNCHANGED <<now, tweets, tweet_quality, broadcasts, audio, ing, pl, aq,
                 faults, rt>>

\* the first query of the service: the tweets of the window (runPipeline),
\* the unpublished broadcasts (processAudioQueue), the broadcasts of a request
EvFirstQuery ==
  /\ ev.pc = "ready"
  /\ ev' = [ev EXCEPT !.pc = "running", !.ops = Append(ev.ops, "store")]
  /\ UNCHANGED <<now, tweets, tweet_quality, broadcasts, audio, ing, pl, aq,
                 faults, rt>>

\* summarizeCluster posts to the generative service with
\* key=${process.env.GEMINI_API_KEY}
EvSummarizeRequest ==
  /\ ev.pc = "running"
  /\ ev.service = "pipeline"
  /\ ev.ops = <<"store">>
  /\ ev' = [ev EXCEPT !.ops = Append(ev.ops, "network")]
  /\ UNCHANGED <<now, tweets, tweet_quality, broadcasts, audio, ing, pl, aq,
                 faults, rt>>

\* --------------------------------------------------------- specifications
\* Ingestion: the store is empty; ingestTweetsFromScraper is invoked twice, at
\* any times, one invocation after the other or both at once
InitIngest ==
  /\ now = 0
  /\ tweets = <<>>
  /\ tweet_quality = <<>>
  /\ broadcasts = <<>>
  /\ audio = <<>>
  /\ ing = [g \in Ingesters |-> IngIdle]
  /\ pl = [p \in Pipelines |-> PlIdle]
  /\ aq = [q \in QProcs |-> AqIdle]
  /\ faults = 0
  /\ rt = RtIdle
  /\ ev = EvIdle

NextIngest ==
  \/ Tick
  \/ \E g \in Ingesters :
       \/ \E page \in Pages : IFetch(g, page)
       \/ \E outcome \in FetchFailures : \E body \in Pages : IFetchFail(g, outcome, body)
       \/ ILookup(g)
       \/ ILookupError(g)
       \/ IInsert(g)
       \/ IInsertDuplicate(g)
       \/ IInsertFail(g)

SpecIngest == InitIngest /\ [][NextIngest]_vars

\* The orchestrator: the tweets of the catalog were ingested over the first
\* hour, none is scored yet; runPipeline is invoked twice, at any times, one
\* invocation after the other or both at once.  The
\* windows of the targets 0, 1, 2, 3 hold no tweet, one rejected tweet, two
\* valid tweets and three valid tweets
IngestedTweets ==
  <<TweetRow(Catalog[4], 0), TweetRow(Catalog[1], 1),
    TweetRow(Catalog[2], 1), TweetRow(Catalog[3], 2)>>

InitPipeline ==
  /\ now = 2
  /\ tweets = IngestedTweets
  /\ tweet_quality = <<>>
  /\ broadcasts = <<>>
  /\ audio = <<>>
  /\ ing = [g \in Ingesters |-> IngIdle]
  /\ pl = [p \in Pipelines |-> PlIdle]
  /\ aq = [q \in QProcs |-> AqIdle]
  /\ faults = 0
  /\ rt = RtIdle
  /\ ev = EvIdle

NextPipeline ==
  \/ Tick
  \/ \E p \in Pipelines :
       \/ PStartDefault(p)
       \/ \E t \in Times : PStartAt(p, t)
       \/ PFilterSelect(p)
       \/ PFilterSelectError(p)
       \/ \E lookupOk \in BOOLEAN : PScore(p, lookupOk)
       \/ PSaveQuality(p)
       \/ PSaveQualityDuplicate(p)
       \/ PSaveQualityError(p)
       \/ PClusterRead(p)
       \/ PClusterReadError(p)
       \/ PSummarize(p)
       \/ PSummarizeFallback(p)
       \/ PSummarizeThrow(p)
       \/ PInsert(p)
       \/ PInsertDuplicate(p)
       \/ PInsertError(p)

SpecPipeline == InitPipeline /\ [][NextPipeline]_vars

\* the steps of a run that wait for the store only
PStoreStep(p) ==
  \/ PFilterSelect(p)
  \/ PFilterSelectError(p)
  \/ \E lookupOk \in BOOLEAN : PScore(p, lookupOk)
  \/ PSaveQuality(p)
  \/ PSaveQualityError(p)
  \/ PClusterRead(p)
  \/ PClusterReadError(p)
  \/ PInsert(p)
  \/ PInsertError(p)

\* the steps of a run that wait for the generative service
PSummarizerStep(p) ==
  \/ PSummarize(p)
  \/ PSummarizeFallback(p)
  \/ PSummarizeThrow(p)

NextPipelineLive ==
  \/ Tick
  \/ PStartDefault("p1")
  \/ \E t \in Times : PStartAt("p1", t)
  \/ PStoreStep("p1")
  \/ PSummarizerStep("p1")

\* One run of the orchestrator, with the progress the code is sure of: the
\* store answers every call, so a run at a store call goes on.
\* summarizeCluster awaits fetch(...) with no signal and no timer: nothing in
\* the code makes that call settle, and the steps of PSummarizerStep are left
\* to the service.  With one run the unique keys are never met
SpecPipelineLive ==
  InitPipeline /\ [][NextPipelineLive]_vars /\ WF_vars(PStoreStep("p1"))

\* The audio queue: the scraper served a valid tweet at each time, and
\* pipeline runs have left unpublished broadcasts, inserted in any order of
\* their hours
SeedTweet(k) ==
  TweetRow(ScraperTweet(100 + k, "a", TRUE, 150, 40, 0, 0, HitsOn(4, 1)), k - 1)

SeedTweets == [k \in 1..MaxQueued |-> SeedTweet(k)]

SeedQuality ==
  [k \in 1..MaxQueued |-> QualityRow(SeedTweets[k].tweet_id,
                                      scoreTweet(SeedTweets[k], Undefined, TRUE))]

\* the run for target t, about to insert its broadcast
SeedRun(t) ==
  LET valid == SelectWindow(SeedTweets, t)
  IN [PlIdle EXCEPT !.pc = "insert", !.target = t, !.sel = valid, !.valid = valid,
                    !.clusters = <<CatchAll(valid)>>,
                    !.sections = <<LlmSummary(CatchAll(valid))>>]

SeedBroadcasts(hs) ==
  [k \in 1..Len(hs) |-> [BroadcastRow(<<>>, SeedRun(hs[k])) EXCEPT !.id = k]]

Injective(f) == \A a, b \in DOMAIN f : a # b => f[a] # f[b]

\* up to max broadcasts, in any order of their hours
FewBroadcasts(max) ==
  {SeedBroadcasts(hs) : hs \in {f \in UNION {[1..n -> 1..max] : n \in 0..max} :
                                  Injective(f)}}

\* QueueLimit..MaxQueued broadcasts, oldest first or newest first
ManyBroadcasts ==
  UNION {{SeedBroadcasts([k \in 1..n |-> k]),
          SeedBroadcasts([k \in 1..n |-> n + 1 - k])} : n \in QueueLimit..MaxQueued}

InitAudioWith(tables) ==
  /\ now = MaxQueued
  /\ tweets = SeedTweets
  /\ tweet_quality = SeedQuality
  /\ broadcasts \in tables
  /\ audio = <<>>
  /\ ing = [g \in Ingesters |-> IngIdle]
  /\ pl = [p \in Pipelines |-> PlIdle]
  /\ aq = [q \in QProcs |-> AqIdle]
  /\ faults = 0
  /\ rt = RtIdle
  /\ ev = EvIdle

InitAudio == InitAudioWith(FewBroadcasts(MaxRaced))

InitAudioSeq == InitAudioWith(FewBroadcasts(MaxBroadcasts) \cup ManyBroadcasts)

QStep(q) ==
  \/ QSelect(q)
  \/ QSelectError(q)
  \/ QTts(q)
  \/ QTtsFail(q)
  \/ QUpload(q)
  \/ QUploadFail(q)
  \/ QInsertAudio(q)
  \/ QInsertAudioDuplicate(q)
  \/ QInsertAudioFail(q)
  \/ QUpdate(q)
  \/ QUpdateFail(q)

\* two processors, each invoked again and again
NextAudio == \E q \in QProcs : QStep(q)

SpecAudio == InitAudio /\ [][NextAudio]_vars

\* one processor, invoked again and again
NextAudioSeq == QStep("q1")

SpecAudioSeq == InitAudioSeq /\ [][NextAudioSeq]_vars

\* The three services side by side on one store: one ingestion, one run of
\* the pipeline and the audio queue, invoked again and again, in any
\* interleaving.  Three tweets were ingested before, and the flag of one of
\* them was set in the store by hand (AND processed = TRUE of the cleanup
\* query; no code of the services writes the flag).  With one run of the
\* pipeline the unique keys of tweet_quality and broadcasts are never met
StoredTweets ==
  <<TweetRow(Catalog[4], 0), TweetRow(Catalog[3], 1),
    [TweetRow(ScraperTweet(5, "d", TRUE, 10, 50, 0, 0, HitsOn(3, 1)), 1)
       EXCEPT !.processed = TRUE]>>

InitSystem ==
  /\ now = 1
  /\ tweets = StoredTweets
  /\ tweet_quality = <<>>
  /\ broadcasts = <<>>
  /\ audio = <<>>
  /\ ing = [g \in Ingesters |-> IngIdle]
  /\ pl = [p \in Pipelines |-> PlIdle]
  /\ aq = [q \in QProcs |-> AqIdle]
  /\ faults = 0
  /\ rt = RtIdle
  /\ ev = EvIdle

NextSystem ==
  \/ Tick
  \/ \E page \in Pages : IFetch("i1", page)
  \/ \E outcome \in FetchFailures : \E body \in Pages : IFetchFail("i1", outcome, body)
  \/ ILookup("i1")
  \/ ILookupError("i1")
  \/ IInsert("i1")
  \/ IInsertDuplicate("i1")
  \/ IInsertFail("i1")
  \/ PStartDefault("p1")
  \/ \E t \in Times : PStartAt("p1", t)
  \/ PFilterSelect("p1")
  \/ PFilterSelectError("p1")
  \/ \E lookupOk \in BOOLEAN : PScore("p1", lookupOk)
  \/ PSaveQuality("p1")
  \/ PSaveQualityError("p1")
  \/ PClusterRead("p1")
  \/ PClusterReadError("p1")
  \/ PSummarize("p1")
  \/ PSummarizeFallback("p1")
  \/ PSummarizeThrow("p1")
  \/ PInsert("p1")
  \/ PInsertError("p1")
  \/ QStep("q1")

SpecSystem == InitSystem /\ [][NextSystem]_vars

\* One call of retry, with any options, on an operation that calls
\* fetchWithTimeout
InitRetry ==
  /\ now = 0
  /\ tweets = <<>>
  /\ tweet_quality = <<>>
  /\ broadcasts = <<>>
  /\ audio = <<>>
  /\ ing = [g \in Ingesters |-> IngIdle]
  /\ pl = [p \in Pipelines |-> PlIdle]
  /\ aq = [q \in QProcs |-> AqIdle]
  /\ faults = 0
  /\ rt = RtIdle
  /\ ev = EvIdle

NextRetry ==
  \/ \E opts \in RetryOptions : RStart(opts)
  \/ \E outcome \in FetchOutcomes : RCallReturns(outcome)
  \/ \E outcome \in FetchOutcomes : RCallThrows(outcome)
  \/ RWake

SpecRetry == InitRetry /\ [][NextRetry]_vars

\* One call of scoreTweet, with any content, author, engagement and override
InitScore ==
  /\ now = 0
  /\ tweets = <<>>
  /\ tweet_quality = <<>>
  /\ broadcasts = <<>>
  /\ audio = <<>>
  /\ ing = [g \in Ingesters |-> IngIdle]
  /\ pl = [p \in Pipelines |-> PlIdle]
  /\ aq = [q \in QProcs |-> AqIdle]
  /\ faults = 0
  /\ rt = RtIdle
  /\ \E content \in ScoreContents, verified \in BOOLEAN,
        retweets \in RetweetCounts, override \in Overrides :
       ev = [pc |-> "score", content |-> content,
             tweet |-> TweetOf(1, content, verified, retweets),
             categoryThresholdOverride |-> override,
             lookupOk |-> FALSE, result |-> <<>>]

NextScore == \E lookupOk \in BOOLEAN : EvScore(lookupOk)

SpecScore == InitScore /\ [][NextScore]_vars

\* One call of categorizeTweet, with any content
InitCategorize ==
  /\ now = 0
  /\ tweets = <<>>
  /\ tweet_quality = <<>>
  /\ broadcasts = <<>>
  /\ audio = <<>>
  /\ ing = [g \in Ingesters |-> IngIdle]
  /\ pl = [p \in Pipelines |-> PlIdle]
  /\ aq = [q \in QProcs |-> AqIdle]
  /\ faults = 0
  /\ rt = RtIdle
  /\ \E content \in CategorizeContents :
       ev = [pc |-> "categorize", content |-> content, result |-> <<>>]

NextCategorize == EvCategorize

SpecCategorize == InitCategorize /\ [][NextCategorize]_vars

\* One call of clusterTweets, with any list of tweets and stored categories
InitCluster ==
  /\ now = 0
  /\ tweets = <<>>
  /\ tweet_quality = <<>>
  /\ broadcasts = <<>>
  /\ audio = <<>>
  /\ ing = [g \in Ingesters |-> IngIdle]
  /\ pl = [p \in Pipelines |-> PlIdle]
  /\ aq = [q \in QProcs |-> AqIdle]
  /\ faults = 0
  /\ rt = RtIdle
  /\ \E input \in ClusterInputs :
       ev = [pc |-> "cluster", tweets |-> InputTweets(input),
             labels |-> [k \in 1..Len(input) |-> input[k].label],
             i |-> 1, groups |-> <<>>, read |-> <<>>, result |-> <<>>]

NextCluster ==
  \/ EvClusterFew
  \/ EvClusterRead
  \/ EvClusterReadError

SpecCluster == InitCluster /\ [][NextCluster]_vars

\* One call of generateBroadcastScript, with any list of clusters
InitScript ==
  /\ now = 0
  /\ tweets = <<>>
  /\ tweet_quality = <<>>
  /\ broadcasts = <<>>
  /\ audio = <<>>
  /\ ing = [g \in Ingesters |-> IngIdle]
  /\ pl = [p \in Pipelines |-> PlIdle]
  /\ aq = [q \in QProcs |-> AqIdle]
  /\ faults = 0
  /\ rt = RtIdle
  /\ \E sizes \in ScriptInputs :
       ev = [pc |-> "script", clusters |-> ScriptClusters(sizes),
             broadcastHour |-> 0, i |-> 1, sections |-> <<>>,
             summarized |-> <<>>, script |-> <<>>, wordCount |-> 0]

NextScript ==
  \/ EvSummarize
  \/ EvSummarizeFallback
  \/ EvSummarizeThrow
  \/ EvAssemble

SpecScript == InitScript /\ [][NextScript]_vars

\* The audio queue invoked again and again without end: a processor that can
\* take a step takes one.  The failures of the store and of the outside
\* services are at most MaxFaults, so that from some point on all operate
NextAudioLive == QStep("q1")

SpecAudioLive == InitAudio /\ [][NextAudioLive]_vars /\ WF_vars(QStep("q1"))

\* The read API answering requests while the audio queue, invoked again and
\* again, publishes the broadcasts
InitGateway == InitAudio

NextGateway ==
  \/ QStep("q1")
  \/ GLatest
  \/ \E id \in 1..(MaxRaced + 1) : GById(id)
  \/ \E page \in 1..2, limit \in 1..2 : GList(page, limit)
  \/ \E route \in {"latest", "id", "list"} : GQueryError(route)

SpecGateway == InitGateway /\ [][NextGateway]_vars

\* The start of one service, with any environment
InitStartup ==
  /\ now = 0
  /\ tweets = <<>>
  /\ tweet_quality = <<>>
  /\ broadcasts = <<>>
  /\ audio = <<>>
  /\ ing = [g \in Ingesters |-> IngIdle]
  /\ pl = [p \in Pipelines |-> PlIdle]
  /\ aq = [q \in QProcs |-> AqIdle]
  /\ faults = 0
  /\ rt = RtIdle
  /\ \E service \in Services, env \in Environments :
       ev = [pc |-> "load", service |-> service, env |-> env, missing |-> {},
             ops |-> <<>>]

NextStartup ==
  \/ EvLoadValidated
  \/ EvLoadPipeline
  \/ EvFirstQuery
  \/ EvSummarizeRequest

SpecStartup == InitStartup /\ [][NextStartup]_vars

\* ----------------------------------------------------------------- claims
Published(id) == \E i \in 1..Len(broadcasts) :
                   broadcasts[i].id = id /\ broadcasts[i].is_published

HasAudio(id) == \E i \in 1..Len(audio) : audio[i].broadcast_id = id

HourTaken(iso) == \E i \in 1..Len(broadcasts) : broadcasts[i].broadcast_hour = iso

BatchIds(r) == [k \in 1..Len(r.batch) |-> r.batch[k].id]

\* C1: the store never holds two broadcasts with the same broadcast_hour, and
\* a run whose insert meets a stored broadcast_hour ends in the catch
\* without a new broadcast
C1_OneBroadcastPerBroadcastHour ==
  /\ [](\A i, j \in 1..Len(broadcasts) :
          i # j => broadcasts[i].broadcast_hour # broadcasts[j].broadcast_hour)
  /\ [][\A p \in Pipelines :
          (/\ pl[p].pc = "insert"
           /\ HourTaken(toISOString(pl[p].target))
           /\ pl'[p] # pl[p])
          => /\ broadcasts' = broadcasts
             /\ pl'[p].pc = "failed"
             /\ pl'[p].result \in {"rejected", "error"}]_vars

\* two runs reached the insert for the same broadcast_hour, one stored its
\* broadcast and the other was rejected by the unique key
C1_Witness ==
  \E p, r \in Pipelines :
    /\ p # r
    /\ pl[p].result = "created"
    /\ pl[r].result = "rejected"
    /\ faults = 0

\* C2: no two broadcasts of the store lie in the same clock hour
C2_OneBroadcastPerClockHour ==
  \A i, j \in 1..Len(broadcasts) :
    i # j => broadcasts[i].broadcast_hour.hour # broadcasts[j].broadcast_hour.hour

\* C3: a broadcast is only ever added by a run that stands at the insert with
\* at least one valid tweet, with clusters that hold every valid tweet and with
\* one summary for each of the clusters of the script; a run that ends in the
\* catch adds no broadcast
C3_NoPartialBroadcast ==
  [][/\ broadcasts' # broadcasts =>
          \E p \in Pipelines :
            /\ pl[p].pc = "insert"
            /\ Len(pl[p].valid) >= 1
            /\ Len(pl[p].clusters) >= 1
            /\ \A k \in 1..Len(pl[p].valid) :
                 \E c \in 1..Len(pl[p].clusters) :
                   pl[p].valid[k].tweet_id \in Range(pl[p].clusters[c].tweet_ids)
            /\ Len(pl[p].sections) = Min(TopClusters, Len(pl[p].clusters))
            /\ pl'[p].result = "created"
            /\ broadcasts' = Append(broadcasts, BroadcastRow(broadcasts, pl[p]))
     /\ \A p \in Pipelines :
          (pl'[p].pc = "failed" /\ pl'[p] # pl[p]) => broadcasts' = broadcasts]_vars

\* one run has stored a broadcast of two clusters while the other ended in the
\* catch on a failure
C3_Witness ==
  \E p, r \in Pipelines :
    /\ pl[p].result = "created"
    /\ pl[r].result = "error"
    /\ \E i \in 1..Len(broadcasts) : broadcasts[i].cluster_count = 2

\* C4: when a run of the queue ends, every broadcast of its batch was
\* attempted, the broadcasts that failed are unpublished and all the others of
\* the batch are published
C4_PartialFailureIsolation ==
  \A q \in QProcs :
    aq[q].pc = "done" =>
      /\ aq[q].attempted = BatchIds(aq[q])
      /\ \A k \in 1..Len(aq[q].batch) :
           Published(aq[q].batch[k].id) <=> aq[q].batch[k].id \notin aq[q].failed

\* a run over three broadcasts has ended: the second failed before its
\* artifact was stored, the first and the third are published
C4_Witness ==
  /\ aq["q1"].pc = "done"
  /\ Len(aq["q1"].batch) = 3
  /\ aq["q1"].failed = {aq["q1"].batch[2].id}
  /\ ~HasAudio(aq["q1"].batch[2].id)
  /\ ~Published(aq["q1"].batch[2].id)
  /\ Published(aq["q1"].batch[1].id)
  /\ Published(aq["q1"].batch[3].id)

\* C5: the store never holds two tweets with the same tweet_id
C5_OneRawItemPerTweetId ==
  \A i, j \in 1..Len(tweets) : i # j => tweets[i].tweet_id # tweets[j].tweet_id

\* without any failure, an ingester stands before the insert of a tweet that
\* another ingester has stored since the lookup
C5_Witness ==
  /\ faults = 0
  /\ \E g \in Ingesters :
       /\ ing[g].pc = "insert"
       /\ \E i \in 1..Len(tweets) : tweets[i].tweet_id = ing[g].page[ing[g].i]

\* C6: the store never holds two audio rows for the same broadcast
C6_OneArtifactPerBroadcast ==
  \A i, j \in 1..Len(audio) : i # j => audio[i].broadcast_id # audio[j].broadcast_id

\* a broadcast with a stored artifact failed in the run before and failed
\* again in this run, and is still unpublished
C6_Witness ==
  \E q \in QProcs : \E id \in aq[q].failed \cap aq[q].prevFailed :
    HasAudio(id) /\ ~Published(id)

\* C7: every published broadcast has an audio row
C7_PublishedHasArtifact ==
  \A i \in 1..Len(broadcasts) :
    broadcasts[i].is_published => HasAudio(broadcasts[i].id)

\* a broadcast is published, while the insert of the artifact of another one
\* has failed
C7_Witness ==
  /\ \E i \in 1..Len(broadcasts) : broadcasts[i].is_published
  /\ \E q \in QProcs : \E id \in aq[q].failed : ~HasAudio(id)

\* C8: a run attempts no broadcast twice; when it ends, the broadcasts that
\* failed in it are unpublished; the next run selects them again and, when it
\* ends, has attempted them again
C8_FailedRetriedNextRun ==
  /\ [](\A q \in QProcs :
          /\ \A a, b \in 1..Len(aq[q].attempted) :
               a # b => aq[q].attempted[a] # aq[q].attempted[b]
          /\ aq[q].pc = "done" =>
               /\ \A id \in aq[q].failed : ~Published(id)
               /\ aq[q].prevFailed \subseteq Range(aq[q].attempted))
  /\ [][\A q \in QProcs :
          (aq[q].pc = "done" /\ aq'[q].pc \in {"tts", "done"} /\ aq'[q] # aq[q])
          => aq[q].failed \subseteq Range(BatchIds(aq'[q]))]_vars

\* a run has ended in which a broadcast that failed in the run before was
\* attempted again
C8_Witness ==
  \E q \in QProcs :
    /\ aq[q].pc = "done"
    /\ aq[q].prevFailed \cap Range(aq[q].attempted) # {}

\* C9: the batch a run selects holds min(10, u) broadcasts, all unpublished,
\* in ascending order of broadcast_hour, and no unpublished broadcast outside
\* the batch is older than one inside; the run attempts the batch in its
\* order, and never a broadcast that is published
C9_OldestTenUnpublishedInOrder ==
  /\ [][\A q \in QProcs :
          (aq'[q] # aq[q] /\ aq[q].pc \in {"idle", "done", "failed"}
                          /\ aq'[q].pc \in {"tts", "done"})
          => LET b == aq'[q].batch
                 u == Unpublished(broadcasts)
             IN /\ Len(b) = Min(10, Cardinality(u))
                /\ \A k \in 1..Len(b) : b[k].id \in u /\ broadcasts[b[k].id] = b[k]
                /\ \A k \in 1..Len(b) - 1 :
                     IsoLess(b[k].broadcast_hour, b[k + 1].broadcast_hour)
                /\ \A i \in u : \A k \in 1..Len(b) :
                     i \notin Range(BatchIds(aq'[q]))
                     => IsoLess(b[k].broadcast_hour, broadcasts[i].broadcast_hour)]_vars
  /\ [](\A q \in QProcs :
          /\ Len(aq[q].attempted) <= Len(aq[q].batch)
          /\ aq[q].attempted = SubSeq(BatchIds(aq[q]), 1, Len(aq[q].attempted))
          /\ aq[q].pc = "tts" => ~Published(Cur(q).id))

\* eleven broadcasts wait, newest first in the table; the run has ended with
\* the ten oldest attempted and the newest left out
C9_Witness ==
  /\ Len(broadcasts) = 11
  /\ aq["q1"].pc = "done"
  /\ Len(aq["q1"].attempted) = 10
  /\ aq["q1"].attempted[1] = 11
  /\ 1 \notin Range(aq["q1"].attempted)
  /\ ~Published(1)

\* C10: a run whose filter stage ends with no valid tweet returns at once as
\* a no-op and the store keeps its broadcasts; clustering, summarization and
\* the insert are only ever reached with a valid tweet
C10_ZeroValidIsNoOp ==
  /\ [][\A p \in Pipelines :
          (/\ pl'[p] # pl[p]
           /\ \/ /\ pl[p].pc = "filter"
                 /\ Len(SelectWindow(tweets, pl[p].target)) = 0
                 /\ pl'[p].pc # "failed"
              \/ /\ pl[p].pc = "save"
                 /\ pl[p].i = Len(pl[p].sel)
                 /\ Len(pl[p].valid) = 0
                 /\ ~pl[p].score.is_valid)
          => /\ pl'[p].pc = "done"
             /\ pl'[p].result = "noop"
             /\ pl[p].clusters = <<>>
             /\ pl[p].sections = <<>>
             /\ broadcasts' = broadcasts]_vars
  /\ [](\A p \in Pipelines :
          pl[p].pc \in {"cluster", "summarize", "insert"} => Len(pl[p].valid) >= 1)

\* a run has scored the only tweet of its window, stored the rejecting score
\* and returned as a no-op; no broadcast exists
C10_Witness ==
  /\ \E p \in Pipelines : pl[p].result = "noop"
  /\ Len(tweet_quality) = 1
  /\ ~tweet_quality[1].is_valid
  /\ broadcasts = <<>>

\* C18: a failed fetch ends the ingestion at once: the run returns 0 without a
\* lookup or an insert and the table of tweets is as before; a run that has
\* returned 0 changes nothing afterwards
C18_FetchFailureIsEmpty ==
  [][\A g \in Ingesters :
       /\ (ing[g].pc = "idle" /\ ing'[g] # ing[g] /\ faults' # faults)
          => /\ ing'[g].pc = "done"
             /\ ing'[g].insertedCount = 0
             /\ tweets' = tweets
       /\ (ing[g].pc = "done" /\ ing[g].insertedCount = 0 /\ tweets' # tweets)
          => \E h \in Ingesters : h # g /\ ing'[h] # ing[h]]_vars

\* the fetch of one ingestion has failed and it has returned 0, while the
\* other ingestion has stored a tweet
C18_Witness ==
  /\ faults = 1
  /\ \E g, h \in Ingesters :
       /\ ing[g].pc = "done" /\ ing[g].insertedCount = 0
       /\ ing[h].pc = "done" /\ ing[h].insertedCount = 1
  /\ Len(tweets) = 1

\* C19: the loop ends only after the last tweet of the page, whatever happened
\* to the tweets before it, and each step of a run adds to insertedCount
\* exactly the rows it adds to the table, so that the count returned is the
\* number of rows the run has inserted
C19_PerItemFailureAndCount ==
  [][\A g \in Ingesters :
       (ing'[g] # ing[g] /\ ing[g].pc \in {"lookup", "insert"})
       => /\ ing'[g].insertedCount - ing[g].insertedCount = Len(tweets') - Len(tweets)
          /\ ing'[g].pc = "done" => ing[g].i = Len(ing[g].page)
          /\ ing'[g].pc # "done" =>
               /\ ing'[g].page = ing[g].page
               /\ ing'[g].i \in {ing[g].i, ing[g].i + 1}
               /\ ing'[g].i = ing[g].i => ing[g].pc = "lookup" /\ ing'[g].pc = "insert"]_vars

\* a run over a page of two tweets has returned 1: the insert of its first
\* tweet failed and its second tweet is stored
C19_Witness ==
  \E g \in Ingesters :
    /\ ing[g].pc = "done"
    /\ ing[g].insertedCount = 1
    /\ faults = 1
    /\ Len(tweets) = 1
    /\ tweets[1].tweet_id = 2
    /\ \A h \in Ingesters : h # g => ing[h].pc = "idle"

\* the score persisted for a tweet, if any
HasQuality(rows, id) == \E i \in 1..Len(rows) : rows[i].tweet_id = id

\* C12: a run is in one of its stages or has returned to its caller, with the
\* failure logged in the catch; a step of a run that does not store its
\* broadcast leaves tweets, broadcasts and audio as they are and keeps every
\* persisted score; the step into the catch changes no table and leaves
\* nothing of the run but what it logged
C12_FailedRunLeavesOnlyScores ==
  /\ [](\A p \in Pipelines :
          /\ pl[p].pc \in {"idle", "filter", "score", "save", "cluster", "summarize",
                           "insert", "done", "failed"}
          /\ pl[p].result \in {"rejected", "error"} <=> pl[p].pc = "failed")
  /\ [][\A p \in Pipelines :
          (pl'[p] # pl[p] /\ pl'[p].result # "created")
          => /\ tweets' = tweets
             /\ broadcasts' = broadcasts
             /\ audio' = audio
             /\ \A i \in 1..Len(tweet_quality) :
                  \E j \in 1..Len(tweet_quality') : tweet_quality'[j] = tweet_quality[i]
             /\ pl'[p].result \in {"rejected", "error"} =>
                  /\ tweet_quality' = tweet_quality
                  /\ pl'[p] = [PlIdle EXCEPT !.pc = "failed", !.result = pl'[p].result]]_vars

\* the only run so far has stored three scores and then failed; no broadcast
\* exists
C12_Witness ==
  \E p, r \in Pipelines :
    /\ pl[p].result = "error"
    /\ pl[r].pc = "idle"
    /\ Len(tweet_quality) = 3
    /\ broadcasts = <<>>

\* C13: the store never holds two scores for the same tweet_id, and a stored
\* score stays in the store as it was written
C13_OneImmutableScorePerTweet ==
  /\ [](\A i, j \in 1..Len(tweet_quality) :
          i # j => tweet_quality[i].tweet_id # tweet_quality[j].tweet_id)
  /\ [][\A i \in 1..Len(tweet_quality) :
          \E j \in 1..Len(tweet_quality') : tweet_quality'[j] = tweet_quality[i]]_vars

\* two runs with overlapping windows have returned, each with its broadcast
\* stored; the store holds one score for each of the four tweets
C13_Witness ==
  /\ \A p \in Pipelines : pl[p].result = "created"
  /\ Len(broadcasts) = 2
  /\ Len(tweet_quality) = 4
  /\ faults = 0

\* C16 as stated: the filter selects the unprocessed tweets ingested in
\* (H - 1h, H]
C16_WindowOpenLeftClosedRight ==
  [][\A p \in Pipelines :
       (pl[p].pc = "filter" /\ pl'[p] # pl[p] /\ faults' = faults)
       => LET w == {i \in 1..Len(tweets) :
                      /\ tweets[i].ingested_at > pl[p].target - Hour
                      /\ tweets[i].ingested_at <= pl[p].target
                      /\ ~tweets[i].processed}
          IN IF w = {} THEN pl'[p].result = "noop"
             ELSE Range(pl'[p].sel) = {tweets[i] : i \in w}]_vars

\* C16, amended: the filter selects exactly the unprocessed tweets ingested in
\* [H - 1h, H), in the order of the table
C16_WindowClosedLeftOpenRight ==
  [][\A p \in Pipelines :
       (pl[p].pc = "filter" /\ pl'[p] # pl[p] /\ faults' = faults)
       => LET w == {i \in 1..Len(tweets) :
                      /\ pl[p].target - Hour <= tweets[i].ingested_at
                      /\ tweets[i].ingested_at < pl[p].target
                      /\ ~tweets[i].processed}
          IN IF w = {} THEN pl'[p].result = "noop" /\ pl'[p].pc = "done"
             ELSE /\ Range(pl'[p].sel) = {tweets[i] : i \in w}
                  /\ Len(pl'[p].sel) = Cardinality(w)
                  /\ pl'[p].pc = "score"]_vars

\* a run for the target H has selected a tweet ingested exactly at H - 1h
\* and has left out a stored tweet ingested exactly at H
C16_Witness ==
  \E p \in Pipelines :
    /\ pl[p].pc = "score"
    /\ \E k \in 1..Len(pl[p].sel) : pl[p].sel[k].ingested_at = pl[p].target - Hour
    /\ \E i \in 1..Len(tweets) :
         /\ tweets[i].ingested_at = pl[p].target
         /\ tweets[i] \notin Range(pl[p].sel)

\* C17: when scoreAndFilterTweets returns, every selected tweet has a
\* persisted score, and the tweets it returns are the selected tweets whose
\* persisted score is valid
C17_ReturnedSetIsPersistedValid ==
  [][\A p \in Pipelines :
       (pl[p].pc = "save" /\ pl[p].i = Len(pl[p].sel) /\ pl'[p] # pl[p])
       => /\ \A k \in 1..Len(pl[p].sel) :
               HasQuality(tweet_quality', pl[p].sel[k].tweet_id)
          /\ pl'[p].pc # "done" =>
               Range(pl'[p].valid) =
                 {t \in Range(pl[p].sel) :
                    \E i \in 1..Len(tweet_quality') :
                      /\ tweet_quality'[i].tweet_id = t.tweet_id
                      /\ tweet_quality'[i].is_valid}]_vars

\* C20: a failure of the call to the generative service, or an answer without
\* the text, gives the placeholder summary of the cluster and the run goes on
C20_SummarizerFailureFallsBack ==
  [][\A p \in Pipelines :
       (pl[p].pc = "summarize" /\ pl'[p] # pl[p] /\ faults' # faults)
       => /\ pl'[p].pc \in {"summarize", "insert"}
          /\ pl'[p].sections =
               Append(pl[p].sections, pl[p].clusters[pl[p].i].summary)]_vars

\* C11: the filter stage of a run selects only after an ingestion from the
\* scraper has been attempted, and a run writes nothing to the store after
\* the insert of its broadcast
C11_IngestBeforeFilter ==
  [][\A p \in Pipelines :
       /\ (pl[p].pc = "filter" /\ pl'[p] # pl[p])
          => \E g \in Ingesters : ing[g].pc # "idle"
       /\ (pl[p].pc = "insert" /\ pl'[p] # pl[p])
          => pl'[p].pc \in {"done", "failed"}]_vars

\* C14: a tweet is inserted with processed false, and no step of the
\* ingestion, of the pipeline or of the audio queue moves, removes or changes
\* a stored tweet: a flag that is set stays set
C14_ProcessedNeverReset ==
  [][/\ Len(tweets') >= Len(tweets)
     /\ \A i \in 1..Len(tweets) :
          /\ tweets'[i].tweet_id = tweets[i].tweet_id
          /\ tweets[i].processed => tweets'[i].processed
          /\ tweets'[i] = tweets[i]
     /\ \A i \in (Len(tweets) + 1)..Len(tweets') : ~tweets'[i].processed]_vars

\* the ingestion has stored a tweet, the pipeline has stored its broadcast
\* from a window that holds the processed tweet, the queue has published
\* the broadcast, and the flag of the processed tweet is still set
C14_Witness ==
  /\ ing["i1"].pc = "done" /\ ing["i1"].insertedCount >= 1
  /\ pl["p1"].result = "created"
  /\ \E i \in 1..Len(broadcasts) :
       /\ broadcasts[i].is_published
       /\ broadcasts[i].broadcast_hour = toISOString(2)
  /\ \E i \in 1..Len(tweets) : tweets[i].processed /\ tweets[i].ingested_at = 1

\* C15: a broadcast enters the store unpublished; the flag of a stored
\* broadcast changes only in the update step of the audio queue for that
\* broadcast, and only to published; a published broadcast stays published
C15_PublishedOnlyByAudioOnlyToTrue ==
  [][/\ Len(broadcasts') >= Len(broadcasts)
     /\ \A i \in (Len(broadcasts) + 1)..Len(broadcasts') : ~broadcasts'[i].is_published
     /\ \A i \in 1..Len(broadcasts) :
          /\ broadcasts'[i].id = broadcasts[i].id
          /\ broadcasts[i].is_published => broadcasts'[i].is_published
          /\ broadcasts'[i].is_published # broadcasts[i].is_published
             => /\ \E q \in QProcs : /\ aq[q].pc = "update"
                                     /\ aq[q].batch[aq[q].i].id = broadcasts[i].id
                                     /\ aq'[q] # aq[q]
                /\ pl' = pl
                /\ ing' = ing]_vars

\* the broadcast the pipeline stored was published by the queue, and the
\* queue has run once more since
C15_Witness ==
  /\ pl["p1"].result = "created"
  /\ Len(broadcasts) = 1
  /\ broadcasts[1].is_published
  /\ aq["q1"].pc = "done"
  /\ aq["q1"].batch = <<>>

\* C21 as stated: a call of retry whose operation failed k times, k <=
\* maxRetries, and then succeeded returns the value after k + 1 invocations
\* and k waits, the first of them no shorter than initialDelayMs; no error
\* reaches the caller before the operation has failed maxRetries + 1 times
C21_SucceedsAfterKRetries ==
  rt.pc # "idle" =>
    /\ rt.pc = "returned" =>
         /\ rt.result = "response"
         /\ Len(rt.errors) <= rt.opts.maxRetries
         /\ rt.calls = Len(rt.errors) + 1
         /\ rt.attempt = Len(rt.errors)
         /\ Len(rt.waited) = Len(rt.errors)
         /\ Len(rt.errors) >= 1 => rt.waited[1] >= rt.opts.initialDelayMs
    /\ rt.pc = "thrown" => Len(rt.errors) = rt.opts.maxRetries + 1

\* C21, amended: the same, with a first wait of min(initialDelayMs,
\* maxDelayMs), which is no shorter than initialDelayMs when the cap is not
\* below it
C21_SucceedsAfterKRetriesCapped ==
  rt.pc # "idle" =>
    /\ rt.pc = "returned" =>
         /\ rt.result = "response"
         /\ Len(rt.errors) <= rt.opts.maxRetries
         /\ rt.calls = Len(rt.errors) + 1
         /\ rt.attempt = Len(rt.errors)
         /\ Len(rt.waited) = Len(rt.errors)
         /\ Len(rt.errors) >= 1 =>
              /\ rt.waited[1] = Min(rt.opts.initialDelayMs, rt.opts.maxDelayMs)
              /\ rt.opts.maxDelayMs >= rt.opts.initialDelayMs
                 => rt.waited[1] >= rt.opts.initialDelayMs
    /\ rt.pc = "thrown" => Len(rt.errors) = rt.opts.maxRetries + 1

\* the operation failed twice and then succeeded: retry has returned after
\* three invocations and two waits
C21_Witness ==
  /\ rt.pc = "returned"
  /\ Len(rt.errors) = 2
  /\ rt.calls = 3
  /\ rt.opts.maxRetries = 2
  /\ Len(rt.waited) = 2

\* C22: when every attempt has failed, the error that reaches the caller of
\* retry is the error the last attempt threw
C22_RethrowsLastError ==
  (rt.pc # "idle" /\ rt.pc = "thrown") => rt.result = rt.errors[Len(rt.errors)]

\* C23: the error fetchWithTimeout throws for a timeout has a type of its own,
\* so that its caller can tell it from the other failures it catches, and
\* every other rejection of fetch is thrown on as it is
C23_TimeoutIsTypedError ==
  (rt.pc # "idle" /\ rt.errors # <<>> /\ rt.pc \in {"wait", "thrown"}) =>
    LET thrown == rt.errors[Len(rt.errors)]
    IN IF rt.outcome.error = AbortError
       THEN thrown.name \notin {FetchFailed.name, ScraperApiError.name,
                                ScraperApiFailed.name}
       ELSE thrown = rt.outcome.error

\* C24: every run that has started ends, returned or in the catch
C24_EveryRunTerminates ==
  (pl["p1"].pc = "filter") ~> (pl["p1"].pc \in {"done", "failed"})

\* what is left of a content once '#' and '@' are removed and it is trimmed
Stripped(content) == trim(replaceMarks(content))

\* C25: a content whose stripped text is shorter than 15 characters is
\* scored invalid, "Too short", with confidence 0, whoever the author, whatever
\* the engagement and the threshold
C25_TooShortIsRejected ==
  (ev.pc = "scored" /\ Len(Stripped(ev.content)) < 15) =>
    /\ ev.result.is_valid = FALSE
    /\ ev.result.rejection_reason = <<"Too short">>
    /\ ev.result.confidence_score = 0

\* 1 when the condition holds and 0 when it does not
Indicator(b) == IF b THEN 1 ELSE 0

\* the confidence of the scoring rules, in tenths, before it is clamped
RuleConfidence(content, verified, engagement) ==
  10 - 3 * Indicator(CountOf(content, Emoji) > 5)
     - 2 * Indicator(CountOf(content, "#") > 5)
     - 2 * Indicator(engagement = 0 /\ ~verified)
     + 2 * Indicator(engagement > 100)
     + 3 * Indicator(verified)

\* x brought into the range [0, 1], in tenths
ClampToUnit(x) == IF Min(10, x) >= 0 THEN Min(10, x) ELSE 0

\* C26: the confidence of a content that is not too short is the clamped sum
\* of the scoring rules, and lies in [0, 1]
C26_ConfidenceIsClampedRuleSum ==
  (ev.pc = "scored" /\ Length(Stripped(ev.content)) >= 15) =>
    /\ ev.result.confidence_score =
         ClampToUnit(RuleConfidence(ev.content, ev.tweet.author_verified,
                                    ev.tweet.retweet_count))
    /\ ev.result.confidence_score \in 0..10

\* a content with too many emojis and too many hashtags, of an unverified
\* author and without engagement, was scored: all three penalties apply
C26_Witness ==
  /\ ev.pc = "scored"
  /\ Length(Stripped(ev.content)) >= 15
  /\ CountOf(ev.content, Emoji) > 5
  /\ CountOf(ev.content, "#") > 5
  /\ ~ev.tweet.author_verified
  /\ ev.tweet.retweet_count = 0
  /\ ev.result.confidence_score = 3

\* the threshold of a call: the one supplied, else the one of the category
\* read from the store, else 0.6
ThresholdOfCall ==
  IF ev.categoryThresholdOverride # Undefined THEN ev.categoryThresholdOverride[1]
  ELSE IF ev.lookupOk THEN CategoryThreshold(ev.result.primary_category)
  ELSE 6

\* C27: a content that is not too short is valid exactly when the confidence
\* returned reaches the threshold, it has at most 5 emojis and at most 5
\* hashtags, and no penalty reason was given
C27_ValidIffConfidenceReachesThreshold ==
  (ev.pc = "scored" /\ Length(Stripped(ev.content)) >= 15) =>
    (ev.result.is_valid <=>
       /\ ev.result.confidence_score >= ThresholdOfCall
       /\ CountOf(ev.content, Emoji) <= 5
       /\ CountOf(ev.content, "#") <= 5
       /\ ev.result.rejection_reason = <<>>)

\* the confidence the call of ev would return were the engagement r
ConfidenceAtEngagement(r) ==
  scoreTweet([ev.tweet EXCEPT !.retweet_count = r], ev.categoryThresholdOverride,
             ev.lookupOk).confidence_score

\* engagement counts the one of the call is compared with
EngagementLevels == {0, 1, 50, 100, 101, 150}

\* C28: for a verified author and no penalty reason the confidence does not
\* decrease when the engagement grows, all else the same, and is at most 1.0
C28_MonotoneInEngagement ==
  (ev.pc = "scored" /\ ev.tweet.author_verified
     /\ ev.result.rejection_reason = <<>>) =>
    /\ \A r \in EngagementLevels :
         /\ r <= ev.tweet.retweet_count
              => ConfidenceAtEngagement(r) <= ev.result.confidence_score
         /\ r >= ev.tweet.retweet_count
              => ConfidenceAtEngagement(r) >= ev.result.confidence_score
    /\ ev.result.confidence_score <= 10

\* a content of a verified author with engagement above 100 and no penalty
\* reason was scored, with confidence 1.0
C28_Witness ==
  /\ ev.pc = "scored"
  /\ ev.tweet.author_verified
  /\ ev.tweet.retweet_count > 100
  /\ ev.result.rejection_reason = <<>>
  /\ ev.result.confidence_score = 10

\* the categories with the most keyword hits in a content
TopCategories(content) ==
  LET hits == KeywordMatches(content)
  IN {c \in 1..Len(Categories) : \A d \in 1..Len(Categories) : hits[d] <= hits[c]}

\* C29: the primary category is the one with the most keyword hits, the
\* first of them in the order Politics, Security, Health, Economy, Education,
\* Energy, Technology, Social when several have the most; the sentence of the
\* logic verification is Politics with Education among the secondaries
C29_PrimaryIsFirstOfTheHighest ==
  ev.pc = "categorized" =>
    /\ \E c \in TopCategories(ev.content) :
         /\ \A d \in TopCategories(ev.content) : c <= d
         /\ ev.result.primary = Categories[c]
    /\ ev.content = PresidentContent =>
         /\ ev.result.primary = "Politics"
         /\ \E k \in 1..Len(ev.result.secondaries) :
              ev.result.secondaries[k] = "Education"

\* a content in which Security and Education have one keyword each, and no
\* category more, was categorized: the primary is Security
C29_Witness ==
  /\ ev.pc = "categorized"
  /\ TopCategories(ev.content) = {2, 5}
  /\ KeywordMatches(ev.content)[2] = 1
  /\ ev.result.primary = "Security"
  /\ ev.result.secondaries = <<"Education">>

\* C30: a content in which no keyword of any category occurs is categorized
\* with the default category, Social, as primary and without secondaries
C30_NoKeywordGivesSocial ==
  (ev.pc = "categorized" /\ KeywordMatches(ev.content) = NoHits) =>
    /\ ev.result.primary = "Social"
    /\ ev.result.secondaries = <<>>

\* the index of a category in the order of the keyword table
IndexOf(name) == CHOOSE c \in 1..Len(Categories) : Categories[c] = name

\* the categories other than the primary with a keyword in the content, each
\* with the number of those ranked before it: more hits first, then the order
\* of the table
RankAmongOthers(content, primary) ==
  LET hits   == KeywordMatches(content)
      others == {c \in 1..Len(Categories) : c # IndexOf(primary) /\ hits[c] > 0}
  IN [c \in others |->
        Cardinality({d \in others : \/ hits[d] > hits[c]
                                    \/ (hits[d] = hits[c] /\ d < c)})]

\* C31: the secondaries are the next two categories of the ranking after the
\* primary that have a keyword in the content: at most two, each with a hit,
\* none the primary, in the order of the ranking
C31_SecondariesAreNextTwoNonzero ==
  ev.pc = "categorized" =>
    LET rank == RankAmongOthers(ev.content, ev.result.primary)
        sec  == ev.result.secondaries
    IN /\ Len(sec) = Min(2, Cardinality(DOMAIN rank))
       /\ \A k \in 1..Len(sec) :
            /\ IndexOf(sec[k]) \in DOMAIN rank
            /\ rank[IndexOf(sec[k])] = k - 1
            /\ sec[k] # ev.result.primary
            /\ KeywordMatches(ev.content)[IndexOf(sec[k])] >= 1

\* a content with keywords of five categories was categorized: two
\* secondaries were returned and two categories with a keyword were left out
C31_Witness ==
  /\ ev.pc = "categorized"
  /\ Cardinality({c \in 1..Len(Categories) : KeywordMatches(ev.content)[c] > 0}) = 5
  /\ ev.result.primary = "Politics"
  /\ ev.result.secondaries = <<"Education", "Security">>

\* C32: with fewer than 3 tweets clusterTweets returns one cluster, of the
\* category Social, that holds every tweet of the input, and the stored
\* categories of the tweets are not looked at
C32_FewItemsOneCatchAll ==
  (ev.pc = "clustered" /\ Len(ev.tweets) < 3) =>
    /\ Len(ev.result) = 1
    /\ Len(ev.result[1].tweet_ids) = Len(ev.tweets)
    /\ Range(ev.result[1].tweet_ids) = {ev.tweets[k].tweet_id : k \in 1..Len(ev.tweets)}
    /\ ev.result[1].primary_category = "Social"
    /\ ev.read = <<>>

\* two tweets stored under two categories, neither of them Social, were
\* clustered into the one catch-all cluster
C32_Witness ==
  /\ ev.pc = "clustered"
  /\ ev.labels = <<"Economy", "Politics">>
  /\ Len(ev.result) = 1
  /\ ev.result[1].tweet_ids = <<1, 2>>
  /\ ev.result[1].primary_category = "Social"

\* the places, cluster and position, at which a tweet id occurs in clusters
PlacesOf(clusters, id) ==
  {<<c, j>> \in (1..Len(clusters)) \X (1..MaxItems + 1) :
     j <= Len(clusters[c].tweet_ids) /\ clusters[c].tweet_ids[j] = id}

\* C33: with 3 tweets or more the clusters are a partition of the input by
\* category: one cluster per category met, none of them empty, and each
\* tweet in one cluster only, the one of its stored category; the categories
\* A, A, B give two clusters and the cluster of A holds the two tweets of A
C33_ClustersPartitionByCategory ==
  (ev.pc = "clustered" /\ Len(ev.tweets) >= 3) =>
    /\ \A a, b \in 1..Len(ev.result) :
         a # b => ev.result[a].primary_category # ev.result[b].primary_category
    /\ {ev.result[c].primary_category : c \in 1..Len(ev.result)} = Range(ev.read)
    /\ \A c \in 1..Len(ev.result) : Len(ev.result[c].tweet_ids) >= 1
    /\ \A k \in 1..Len(ev.tweets) :
         /\ Cardinality(PlacesOf(ev.result, ev.tweets[k].tweet_id)) = 1
         /\ \A pos \in PlacesOf(ev.result, ev.tweets[k].tweet_id) :
              /\ ev.result[pos[1]].primary_category = ev.read[k]
              /\ faults = 0 => ev.result[pos[1]].primary_category = ev.labels[k]
    /\ (faults = 0 /\ ev.labels = <<"Economy", "Economy", "Social">>) =>
         /\ Len(ev.result) = 2
         /\ \E c \in 1..2 : /\ ev.result[c].primary_category = "Economy"
                             /\ ev.result[c].tweet_ids = <<1, 2>>

\* the tweets of the logic verification, Economy, Economy and Social, were
\* clustered with every category read: two clusters
C33_Witness ==
  /\ ev.pc = "clustered"
  /\ faults = 0
  /\ ev.labels = <<"Economy", "Economy", "Social">>
  /\ Len(ev.result) = 2
  /\ ev.result[1].tweet_ids = <<1, 2>>
  /\ ev.result[2].tweet_ids = <<3>>

RECURSIVE Paragraphs(_)
\* the parts of a text that blank lines separate
Paragraphs(text) ==
  LET breaks == {i \in 1..(Len(text) - 1) : text[i] = "\n" /\ text[i + 1] = "\n"}
  IN IF breaks = {} THEN <<text>>
     ELSE LET first == CHOOSE i \in breaks : \A j \in breaks : i <= j
          IN <<SubSeq(text, 1, first - 1)>>
             \o Paragraphs(SubSeq(text, first + 2, Len(text)))

\* C34: of n clusters the first min(5, n) are summarized, each once, and the
\* script is the preamble, the sections numbered from 1 with the summaries
\* returned for these clusters, and the sign-off, with blank lines between
\* them; no later cluster is summarized or named in the script
C34_ScriptIsPreambleSectionsSignOff ==
  ev.pc = "scripted" =>
    LET m     == Min(5, Len(ev.clusters))
        paras == Paragraphs(ev.script)
    IN /\ ev.summarized = [k \in 1..m |-> k]
       /\ Len(ev.sections) = m
       /\ Len(paras) = (IF m = 0 THEN 1 ELSE m) + 3
       /\ paras[1] = Preamble \o <<" ">> \o toLocaleString(ev.broadcastHour) \o <<".">>
       /\ m = 0 => paras[2] = <<>>
       /\ \A i \in 1..m :
            /\ ev.sections[i] \in {LlmSummary(ev.clusters[i]), ev.clusters[i].summary}
            /\ paras[1 + i] = <<NumberWords[i], ".", " ">> \o SummaryText(ev.sections[i])
       /\ paras[Len(paras) - 1] = MoreUpdates
       /\ paras[Len(paras)] = SignOff
       /\ \A k \in (m + 1)..Len(ev.clusters) :
            ev.clusters[k].primary_category \notin Range(ev.script)

\* a script was assembled from six clusters: five sections, and the sixth
\* cluster was not summarized
C34_Witness ==
  /\ ev.pc = "scripted"
  /\ Len(ev.clusters) = 6
  /\ Len(ev.sections) = 5
  /\ ev.summarized = <<1, 2, 3, 4, 5>>
  /\ Len(Paragraphs(ev.script)) = 8

\* the number of tweets of a cluster
Members(cluster) == Len(cluster.tweet_ids)

\* C35: the clusters of the script are the five with the most tweets, in
\* the order of descending number of tweets: no cluster left out has more
\* tweets than one in the script, and no section comes after one of a
\* cluster with fewer tweets
C35_TopFiveByMemberCount ==
  ev.pc = "scripted" =>
    /\ \A a \in Range(ev.summarized) :
         \A b \in (1..Len(ev.clusters)) \ Range(ev.summarized) :
           Members(ev.clusters[b]) <= Members(ev.clusters[a])
    /\ \A i, j \in 1..Len(ev.summarized) :
         i < j => Members(ev.clusters[ev.summarized[i]])
                    >= Members(ev.clusters[ev.summarized[j]])

\* the tokens of a text that white space separates: the places where a run
\* of elements other than white space begins
WhiteSpaceTokens(text) ==
  Cardinality({i \in 1..Len(text) :
                 /\ text[i] \notin WhiteSpace
                 /\ (i = 1 \/ text[i - 1] \in WhiteSpace)})

\* C36: the word count of a script is the number of its tokens separated by
\* white space, line breaks and blank lines included
C36_WordCountIsWhiteSpaceTokens ==
  ev.pc = "scripted" => ev.wordCount = WhiteSpaceTokens(ev.script)

\* the required variables of the service of ev that are unset or empty
MissingCredentials == {key \in Required(ev.service) : ev.env[key] \in {"unset", "empty"}}

\* C37: a service that lacks a required variable ends at its start, before
\* any operation on the store or the network, and where validateEnv is what
\* ends it the error names every required variable that is unset or empty
C37_MissingCredentialIsFatal ==
  (ev.pc # "load" /\ MissingCredentials # {}) =>
    /\ ev.pc = "fatal"
    /\ ev.ops = <<>>
    /\ ev.service \in {"audio", "gateway"} => ev.missing = MissingCredentials

\* C38: a request to the read API leaves the four tables as they were, and
\* every broadcast of a success response is a row of the store with
\* is_published true
C38_ReadApiReadsPublishedOnly ==
  [][ev' # ev =>
       /\ UNCHANGED <<tweets, tweet_quality, broadcasts, audio>>
       /\ ev'.status = 200 =>
            \A k \in 1..Len(ev'.data) :
              /\ ev'.data[k].broadcast \in Range(broadcasts)
              /\ ev'.data[k].broadcast.is_published]_vars

\* the list was answered with one broadcast while another broadcast of the
\* store was not published
C38_Witness ==
  /\ ev.pc = "responded"
  /\ ev.route = "list"
  /\ ev.status = 200
  /\ Len(ev.data) = 1
  /\ Unpublished(broadcasts) # {}

\* C39: when every attempt fails, retry with maxRetries = n has called the
\* operation n + 1 times and waited n times when it throws; the k-th wait,
\* k from 0, is min(initialDelayMs * backoffMultiplier^k, maxDelayMs), the
\* waits do not decrease and none is longer than maxDelayMs
C39_BackoffWaits ==
  rt.pc = "thrown" =>
    /\ rt.calls = rt.opts.maxRetries + 1
    /\ Len(rt.errors) = rt.opts.maxRetries + 1
    /\ Len(rt.waited) = rt.opts.maxRetries
    /\ \A k \in 0..(rt.opts.maxRetries - 1) :
         /\ rt.waited[k + 1] =
              Min(rt.opts.initialDelayMs * Pow(rt.opts.backoffMultiplier, k),
                  rt.opts.maxDelayMs)
         /\ rt.waited[k + 1] <= rt.opts.maxDelayMs
         /\ k >= 1 => rt.waited[k] <= rt.waited[k + 1]

\* retry with maxRetries = 2, initial delay 1, multiplier 2 and cap 2 has
\* thrown after three calls: it waited 1 and then 2
C39_Witness ==
  /\ rt.pc = "thrown"
  /\ rt.opts = [maxRetries |-> 2, initialDelayMs |-> 1, maxDelayMs |-> 2,
                backoffMultiplier |-> 2]
  /\ rt.calls = 3
  /\ rt.waited = <<1, 2>>

\* C40: with the queue invoked again and again, once nothing fails any more
\* every broadcast is published in the end and stays so
C40_EveryBroadcastEventuallyPublished ==
  <>[](Unpublished(broadcasts) = {})

====
